---- MODULE Spec2Model ----
(***************************************************************************)
(* Model of the news pipeline of 004_google_news_v1.1: the article         *)
(* crawler (article_crawler.py), the feed collector that hands it its      *)
(* stubs (google_news_collector.py), the configuration it reads            *)
(* (config.py), the summariser (ai_summarizer.py), the steps of main()     *)
(* around them (main.py) with what the Notion saver and the Telegram       *)
(* sender return (notion_saver.py, telegram_sender.py), the keyword        *)
(* managers (google_sheets_manager.py, keyword_manager.py) and the         *)
(* scheduler that starts main.py (scheduler.py).                           *)
(*                                                                         *)
(* Text is kept run-length encoded: a string is a sequence of runs         *)
(* [c |-> character, n |-> repetitions], so that the thresholds of the     *)
(* source (200 and 1000 characters) are real lengths.                      *)
(***************************************************************************)
EXTENDS Integers, Sequences, FiniteSets, TLC

VARIABLES
    stats,             \* ArticleCrawler.stats
    content_selectors, \* ArticleCrawler.content_selectors, in insertion order
    articles,          \* the list passed to crawl_articles; its dicts are updated in place
    crawled_articles,  \* the list crawl_articles builds: references (indices) into articles
    idx,               \* stubs the for loop of crawl_articles has finished
    pc,                \* "idle", "loop", "returned", "raised"
    calls,             \* calls of crawl_articles started so far
    viaMain,           \* the current list was produced by collect_latest_news in main()
    log,               \* the requests (session.get) and sleeps of the current call, in order
    main_run,          \* the settings of the last run of main() and the step it has reached
    summary_data,      \* what create_simple_summary returned in that run
    markup,            \* the page handed to the extractor
    source_url,        \* the URL handed to the extractor
    soup,              \* the parsed tree as the last extraction left it
    result,            \* what the last extraction returned
    first,             \* what the first extraction of (markup, url) returned
    extracts,          \* extractions made so far
    sum_articles,        \* the list passed to generate_summary
    summarized_articles, \* the list generate_summary builds
    all_keywords,        \* the keywords collected for _get_top_keywords
    top_keywords,        \* what _get_top_keywords returned
    overall_summary,     \* what _generate_overall_summary returned
    sum_pc,              \* "idle", "loop", "returned", "direct"
    last_summary,        \* the local summary of the last pass of the loop of generate_summary
    last_keywords,       \* the local keywords of that pass
    sum_calls,           \* calls of the summariser made so far
    clock,               \* the time, in seconds
    worksheet,           \* GoogleSheetsManager.worksheet is connected
    cached_keywords,     \* GoogleSheetsManager.cached_keywords
    last_update,         \* GoogleSheetsManager.last_update
    sheet_op,            \* the last call on the keyword managers and what it did
    returned,            \* what get_keywords returned in that call
    kw_result,           \* what get_search_keywords returned in that call
    last_load,           \* the last load of the sheet before that call: time and outcome
    last_loaded,         \* the records of the last successful load
    sheet_calls,         \* calls on the keyword managers made so far
    is_running,          \* ImprovedScheduler.is_running
    execution_count,     \* ImprovedScheduler.execution_count
    success_count,       \* ImprovedScheduler.success_count
    last_execution,      \* ImprovedScheduler.last_execution: 0 for None, else an end time
    invocation,          \* the invocations of run_news_automation: where each stands
    ended,               \* main-script subprocesses that have ended: the end times
    collection           \* a GoogleNewsCollector, the feed it reads and what it returned

crawlVars == <<articles, crawled_articles, idx, pc, calls, viaMain, log, main_run,
               summary_data>>
extractVars == <<markup, source_url, soup, result, first, extracts>>
summaryVars == <<sum_articles, summarized_articles, all_keywords, top_keywords,
                 overall_summary, sum_pc, last_summary, last_keywords, sum_calls>>
sheetVars == <<clock, worksheet, cached_keywords, last_update, sheet_op, returned, kw_result,
               last_load, last_loaded, sheet_calls>>
schedVars == <<is_running, execution_count, success_count, last_execution, invocation, ended>>
serviceVars == <<sheetVars, schedVars, collection>>
pipelineVars == <<stats, content_selectors, crawlVars, extractVars, summaryVars>>
vars == <<pipelineVars, serviceVars>>

----
(* Bounds of the model *)

MaxStubs == 2
MaxRuns == 2
MaxEntries == 2

\* invocations of ImprovedScheduler.run_news_automation
MaxInvocations == 3
\* entries of the feed a collector reads on its own
MaxFeed == 3

\* an invocation: the statement it stands before, what its subprocess gave,
\* the failure notifications it attempted, what it returned
NotInvoked == [pc |-> "idle", started |-> FALSE, outcome |-> "none", notified |-> 0,
               ret |-> "none"]

----
(* Text *)

Run(c, n) == [c |-> c, n |-> n]
EmptyText == <<>>
\* Python's None, where a dict value may hold it
None == <<[c |-> "None", n |-> 0]>>

Whitespace == {"sp", "nl"}

\* characters a symbol of the alphabet stands for: a keyword is one symbol
Width(c) ==
    CASE c \in {"AI", "ai"} -> 2
      [] c \in {"GPT", "gpt", "LLM", "llm"} -> 3
      [] c \in {"seutateueop", "ingongjineung"} -> 4
      [] c \in {"OpenAI", "openai"} -> 6
      [] c \in {"ChatGPT", "chatgpt"} -> 7
      [] c = "deep learning" -> 13
      [] OTHER -> 1

\* len(text)
RECURSIVE TLen(_)
TLen(t) == IF t = <<>> THEN 0 ELSE Head(t).n * Width(Head(t).c) + TLen(Tail(t))

\* canonical form of a run sequence: no empty run, no two adjacent runs of one character
RECURSIVE Canon(_)
Canon(t) ==
    IF t = <<>> THEN <<>>
    ELSE IF Head(t).n = 0 THEN Canon(Tail(t))
    ELSE LET r == Canon(Tail(t)) IN
         IF r # <<>> /\ Head(r).c = Head(t).c
         THEN <<Run(Head(t).c, Head(t).n + Head(r).n)>> \o Tail(r)
         ELSE <<Head(t)>> \o r

Concat(s, t) == Canon(s \o t)

\* text[:k]
\* a keyword cut in the middle leaves letters that are no keyword
RECURSIVE Take(_, _)
Take(t, k) ==
    IF t = <<>> \/ k <= 0 THEN <<>>
    ELSE LET w == Width(Head(t).c) IN
         IF Head(t).n * w > k
         THEN Canon(<<Run(Head(t).c, k \div w), Run("x", k % w)>>)
         ELSE <<Head(t)>> \o Take(Tail(t), k - Head(t).n * w)

\* re.sub(r'\s+', ' ', text)
RECURSIVE CollapseWs(_)
CollapseWs(t) ==
    IF t = <<>> THEN <<>>
    ELSE IF Head(t).c \in Whitespace
         THEN LET r == CollapseWs(Tail(t)) IN
              IF r # <<>> /\ Head(r).c = "sp" /\ Head(t).n > 0
              THEN r   \* the following whitespace belongs to the same match
              ELSE IF Head(t).n > 0 THEN <<Run("sp", 1)>> \o r ELSE r
         ELSE <<Head(t)>> \o CollapseWs(Tail(t))

\* text.replace(ch, '')
RemoveChar(t, ch) == Canon(SelectSeq(t, LAMBDA r : r.c # ch))

RECURSIVE LStrip(_)
LStrip(t) ==
    IF t = <<>> THEN <<>>
    ELSE IF Head(t).c \in Whitespace \/ Head(t).n = 0 THEN LStrip(Tail(t))
    ELSE t

RECURSIVE Reverse(_)
Reverse(t) == IF t = <<>> THEN <<>> ELSE Reverse(Tail(t)) \o <<Head(t)>>

\* str.strip()
Strip(t) == Reverse(LStrip(Reverse(LStrip(Canon(t)))))

\* html.unescape(text): the alphabet of the model holds no '&', the only
\* character html.unescape acts on, so the text comes back unchanged
unescape(t) == t

\* ArticleCrawler._clean_text
_clean_text(text) ==
    IF text = <<>> \/ text = None THEN EmptyText
    ELSE Strip(unescape(RemoveChar(RemoveChar(CollapseWs(text), "zw"), "bom")))

----
(* Parsed pages.  A page is the list of the elements under its root in     *)
(* document order.  A leaf is a paragraph, an image or a bare string; a    *)
(* box is an element a content selector can match, holding leaves.  A leaf *)
(* with noise = TRUE stands inside an element matched by remove_selectors  *)
(* (<aside><p>..</p></aside>).  A leaf of a box may itself be an element a *)
(* content selector matches (<aside><div class="content">..</div></aside>):*)
(* its sel names the selector.                                             *)

NoSrc == [name |-> "", rel |-> FALSE, ext |-> FALSE, excl |-> FALSE]
Src(name, rel, ext, excl) == [name |-> name, rel |-> rel, ext |-> ext, excl |-> excl]

Leaf(kind, noise, text, src, dsrc) ==
    [kind |-> kind, sel |-> "", noise |-> noise, text |-> text,
     src |-> src, dsrc |-> dsrc, kids |-> <<>>]
P(text) == Leaf("p", FALSE, text, NoSrc, NoSrc)
NoiseP(text) == Leaf("p", TRUE, text, NoSrc, NoSrc)
Str(text) == Leaf("text", FALSE, text, NoSrc, NoSrc)
NoiseStr(text) == Leaf("text", TRUE, text, NoSrc, NoSrc)
Img(src) == Leaf("img", FALSE, EmptyText, src, NoSrc)
LazyImg(dsrc) == Leaf("img", FALSE, EmptyText, NoSrc, dsrc)
NoiseImg(src) == Leaf("img", TRUE, EmptyText, src, NoSrc)
\* an element matched by sel that holds a string and stands inside a noise element
NoiseBox(sel, text) == [NoiseStr(text) EXCEPT !.sel = sel]
Box(sel, kids) ==
    [kind |-> "box", sel |-> sel, noise |-> FALSE, text |-> EmptyText,
     src |-> NoSrc, dsrc |-> NoSrc, kids |-> kids]
Page(body, nodes) == [body |-> body, nodes |-> nodes]

\* every leaf of the page in document order
RECURSIVE Flatten(_)
Flatten(nodes) ==
    IF nodes = <<>> THEN <<>>
    ELSE (IF Head(nodes).kind = "box" THEN Head(nodes).kids ELSE <<Head(nodes)>>)
         \o Flatten(Tail(nodes))

\* a place in the page: the k-th element under the root (j = 0) or the j-th
\* leaf of it
Place(k, j) == [k |-> k, j |-> j]
NoPlace == Place(0, 0)

\* the leaves of a box that the selector matches
InnerMatches(node, selector) ==
    {j \in 1..Len(node.kids) : node.kids[j].sel = selector}

\* soup.select_one(selector): the place of the first element matching, in
\* document order, NoPlace if none
RECURSIVE FirstMatch(_, _, _)
FirstMatch(nodes, selector, k) ==
    IF k > Len(nodes) THEN NoPlace
    ELSE IF nodes[k].kind = "box" /\ nodes[k].sel = selector THEN Place(k, 0)
    ELSE IF nodes[k].kind = "box" /\ InnerMatches(nodes[k], selector) # {}
    THEN Place(k, CHOOSE j \in InnerMatches(nodes[k], selector) :
                      \A i \in InnerMatches(nodes[k], selector) : j <= i)
    ELSE FirstMatch(nodes, selector, k + 1)
select_one(s, selector) == FirstMatch(s.nodes, selector, 1)

\* for tag in element.select(selector): tag.decompose(), over remove_selectors
Decompose(element) ==
    [element EXCEPT !.kids = SelectSeq(element.kids, LAMBDA l : ~l.noise)]

\* ' '.join(strings)
RECURSIVE JoinSp(_)
JoinSp(ts) ==
    IF ts = <<>> THEN EmptyText
    ELSE IF Len(ts) = 1 THEN Canon(ts[1])
    ELSE Concat(Concat(ts[1], <<Run("sp", 1)>>), JoinSp(Tail(ts)))

RECURSIVE JoinRaw(_)
JoinRaw(ts) == IF ts = <<>> THEN EmptyText ELSE Concat(Head(ts), JoinRaw(Tail(ts)))

RECURSIVE Texts(_)
Texts(leaves) == IF leaves = <<>> THEN <<>> ELSE <<Head(leaves).text>> \o Texts(Tail(leaves))

RECURSIVE StripAll(_)
StripAll(ts) == IF ts = <<>> THEN <<>> ELSE <<Strip(Head(ts))>> \o StripAll(Tail(ts))

\* element.get_text(separator=' ', strip=True): the stripped non-empty strings
ElementText(element) ==
    JoinSp(SelectSeq(StripAll(Texts(element.kids)), LAMBDA t : t # <<>>))

\* ArticleCrawler._clean_content: the element is changed in place
_clean_content(element) ==
    LET cleaned == Decompose(element) IN
    [element |-> cleaned, text |-> _clean_text(ElementText(cleaned))]

\* _clean_content of the j-th leaf of a box, an element that holds one
\* string: nothing is removed, the box stays as it is
CleanInner(box, j) ==
    [element |-> box, text |-> _clean_text(Strip(box.kids[j].text))]

----
(* URLs.  A netloc is a sequence of tokens, so that Python's substring    *)
(* test "site_domain in domain" is a contiguous-subsequence test.         *)
(* ext / excl tell whether the part of the URL that urljoin keeps holds   *)
(* an image extension / an exclusion keyword.                             *)

Url(netloc, path) == [netloc |-> netloc, path |-> path, ext |-> FALSE, excl |-> FALSE]

\* str.lower() on one token
LowerTok(tok) ==
    CASE tok = "TechCrunch" -> "techcrunch"
      [] tok = "WWW." -> "www."
      [] OTHER -> tok

Lower(netloc) == [k \in 1..Len(netloc) |-> LowerTok(netloc[k])]

\* a in b, for strings
IsSubstring(a, b) ==
    \E k \in 0..(Len(b) - Len(a)) : \A j \in 1..Len(a) : b[k + j] = a[j]

\* ArticleCrawler.__init__: self.content_selectors, in insertion order
InitContentSelectors == <<
    [domain |-> <<"aitimes", ".com">>,    selectors |-> <<".article-content", ".news-content", "article">>],
    [domain |-> <<"techcrunch", ".com">>, selectors |-> <<".entry-content", ".article-content">>],
    [domain |-> <<"zdnet", ".co.kr">>,    selectors |-> <<".view_con", ".article_view", ".news-content">>],
    [domain |-> <<"chosun", ".com">>,     selectors |-> <<".news_text", ".article_view", ".news-content">>],
    [domain |-> <<"dt", ".co.kr">>,       selectors |-> <<".article-content", ".view-con", ".news-content">>],
    [domain |-> <<"etnews", ".com">>,     selectors |-> <<".article_txt", ".news-content", ".article-content">>],
    [domain |-> <<"hankyung", ".com">>,   selectors |-> <<".article-content", ".news-content">>],
    [domain |-> <<"mk", ".co.kr">>,       selectors |-> <<".news_detail_text", ".article-content">>] >>

\* the default selectors of _extract_main_content
GenericSelectors == <<"article", ".article-content", ".news-content", ".post-content",
                      ".entry-content", "#content", ".article-body", ".news-body",
                      ".content", ".main-content", ".article", ".post">>

\* minimum length of a selector's cleaned text, and the cut of the body text
MinContentLength == 200
BodyCut == 1000
MaxImages == 5

\* the loop over self.content_selectors.items() with its break
RECURSIVE SiteSelectors(_, _)
SiteSelectors(table, domain) ==
    IF table = <<>> THEN <<>>
    ELSE IF IsSubstring(Head(table).domain, domain) THEN Head(table).selectors
    ELSE SiteSelectors(Tail(table), domain)

SelectorsFor(table, url) ==
    LET selectors == SiteSelectors(table, Lower(url.netloc)) IN
    IF selectors = <<>> THEN GenericSelectors ELSE selectors

\* the loop "for selector in selectors" of _extract_main_content; every
\* element it cleans stays cleaned in the tree
RECURSIVE TrySelectors(_, _)
\* lines 155-158 for the element at position k, c being its cleaning
TryElement(selectors, s, k, c) ==
    IF TLen(c.text) > MinContentLength
    THEN [found |-> TRUE, content |-> c.text,
          soup |-> [s EXCEPT !.nodes[k] = c.element], sel |-> Head(selectors)]
    ELSE TrySelectors(Tail(selectors), [s EXCEPT !.nodes[k] = c.element])

TrySelector(selectors, s, at) ==
    IF at = NoPlace THEN TrySelectors(Tail(selectors), s)
    ELSE IF at.j = 0 THEN TryElement(selectors, s, at.k, _clean_content(s.nodes[at.k]))
    ELSE TryElement(selectors, s, at.k, CleanInner(s.nodes[at.k], at.j))

TrySelectors(selectors, s) ==
    IF selectors = <<>> THEN [found |-> FALSE, content |-> EmptyText, soup |-> s, sel |-> ""]
    ELSE TrySelector(selectors, s, select_one(s, Head(selectors)))

Paragraphs(s) == SelectSeq(Flatten(s.nodes), LAMBDA l : l.kind = "p")

\* body.get_text()
BodyText(s) == JoinRaw(Texts(Flatten(s.nodes)))

\* AfterSelectors with the fallback counter raised before the paragraph test
AfterSelectors_EarlyCount(t) ==
    IF t.found
    THEN [content |-> t.content, soup |-> t.soup, fallback |-> 0, from |-> "selector", sel |-> t.sel]
    ELSE IF Paragraphs(t.soup) # <<>>
    THEN [content |-> _clean_text(JoinSp(StripAll(Texts(Paragraphs(t.soup))))),
          soup |-> t.soup, fallback |-> 1, from |-> "paragraphs", sel |-> ""]
    ELSE IF t.soup.body
    THEN [content |-> _clean_text(Take(BodyText(t.soup), BodyCut)),
          soup |-> t.soup, fallback |-> 1, from |-> "body", sel |-> ""]
    ELSE [content |-> EmptyText, soup |-> t.soup, fallback |-> 1, from |-> "none", sel |-> ""]

\* lines 158-172: what _extract_main_content returns once the loop over the
\* selectors has ended with outcome t
AfterSelectors(t) ==
    IF t.found
    THEN [content |-> t.content, soup |-> t.soup, fallback |-> 0, from |-> "selector", sel |-> t.sel]
    ELSE IF Paragraphs(t.soup) # <<>>
    THEN [content |-> _clean_text(JoinSp(StripAll(Texts(Paragraphs(t.soup))))),
          soup |-> t.soup, fallback |-> 1, from |-> "paragraphs", sel |-> ""]
    ELSE IF t.soup.body
    THEN [content |-> _clean_text(Take(BodyText(t.soup), BodyCut)),
          soup |-> t.soup, fallback |-> 0, from |-> "body", sel |-> ""]
    ELSE [content |-> EmptyText, soup |-> t.soup, fallback |-> 0, from |-> "none", sel |-> ""]

\* ArticleCrawler._extract_main_content(soup, url): the text returned, the
\* tree as the call leaves it, the increment of stats['fallback_used'] and
\* the return statement taken
_extract_main_content(table, s, url) ==
    AfterSelectors(TrySelectors(SelectorsFor(table, url), s))

\* urljoin(base_url, src)
urljoin(base, src) ==
    IF src.rel
    THEN [name |-> src.name, base |-> base.netloc,
          ext |-> src.ext \/ base.ext, excl |-> src.excl \/ base.excl]
    ELSE [name |-> src.name, base |-> <<>>, ext |-> src.ext, excl |-> src.excl]

\* ArticleCrawler._is_valid_image
_is_valid_image(u) ==
    IF u.name = "" THEN FALSE
    ELSE IF u.ext THEN TRUE
    ELSE IF u.excl THEN FALSE
    ELSE TRUE

\* _extract_images with the list kept on the crawler instead of a local one
_extract_images_Accumulating(s, base_url) ==
    LET found == SelectSeq(Flatten(s.nodes),
                           LAMBDA l : l.kind = "img" /\ (l.src.name # "" \/ l.dsrc.name # ""))
        images == result.images \o
                  [k \in 1..Len(found) |->
                      [url |-> urljoin(base_url, IF found[k].src.name # ""
                                                 THEN found[k].src ELSE found[k].dsrc)]]
    IN SubSeq(images, 1, IF Len(images) < MaxImages THEN Len(images) ELSE MaxImages)

\* ArticleCrawler._extract_images
RECURSIVE ValidImages(_, _)
ValidImages(imgs, base) ==
    IF imgs = <<>> THEN <<>>
    ELSE LET img == Head(imgs)
             src == IF img.src.name # "" THEN img.src ELSE img.dsrc
             rest == ValidImages(Tail(imgs), base)
         IN IF src.name # "" /\ _is_valid_image(urljoin(base, src))
            THEN <<[url |-> urljoin(base, src)]>> \o rest
            ELSE rest

_extract_images(s, base_url) ==
    LET images == ValidImages(SelectSeq(Flatten(s.nodes), LAMBDA l : l.kind = "img"), base_url)
    IN SubSeq(images, 1, IF Len(images) < MaxImages THEN Len(images) ELSE MaxImages)

\* _extract_content from the parse on: the page is parsed into a new tree,
\* the content is extracted from it, then the images from the same tree
WithImages(m, u) ==
    [content |-> m.content, images |-> _extract_images(m.soup, u), soup |-> m.soup,
     fallback |-> m.fallback, from |-> m.from, sel |-> m.sel]

ExtractPage(table, page, u) == WithImages(_extract_main_content(table, page, u), u)

----
(* Configuration (config.py) *)

\* the attributes class Config defines for crawling, collecting and summarising
ConfigAttrs == {"USER_AGENT", "REQUEST_TIMEOUT", "MAX_RETRIES", "REQUEST_DELAY"}
                   \cup {"MAX_ARTICLES", "SEARCH_HOURS", "AI_KEYWORDS", "TECH_KEYWORDS"}
                   \cup {"OPENAI_API_KEY", "OPENAI_MODEL", "OPENAI_MAX_TOKENS",
                         "OPENAI_TEMPERATURE"}

MAX_ARTICLES == 10
SummaryCut == 200

\* the settings Config.validate_config requires
RequiredSettings == {"OPENAI_API_KEY", "NOTION_API_KEY", "NOTION_DATABASE_ID",
                     "TELEGRAM_BOT_TOKEN", "TELEGRAM_CHAT_ID"}

\* Config.validate_config: TRUE when it returns, FALSE when it raises ValueError
validate_config(env) == RequiredSettings \subseteq env

----
(* The web: what requesting a URL gives *)

LongLen == 300
ShortLen == 5

LongText == <<Run("a", LongLen)>>
ShortText == <<Run("b", ShortLen)>>

ArticlePage == Page(TRUE, <<Box(".article-content", <<Str(LongText)>>)>>)
BlankPage == Page(TRUE, <<>>)

U_article == Url(<<"example", ".com">>, "a")
U_blank == Url(<<"example", ".com">>, "blank")
U_timeout == Url(<<"example", ".com">>, "timeout")
U_gone == Url(<<"example", ".com">>, "gone")

Web(u) ==
    CASE u.path = "timeout" -> [status |-> "timeout", page |-> BlankPage]
      [] u.path = "gone" -> [status |-> "http_error", page |-> BlankPage]
      [] u.path = "blank" -> [status |-> "ok", page |-> BlankPage]
      [] OTHER -> [status |-> "ok", page |-> ArticlePage]

----
(* ArticleCrawler *)

Has(a, k) == k \in DOMAIN a
Set(a, k, v) == (k :> v) @@ a

ZeroStats == [total_attempts |-> 0, successful_crawls |-> 0,
              failed_crawls |-> 0, fallback_used |-> 0]

\* line 124: return content, images
Returned(r, u) ==
    [content |-> r.content, images |-> r.images, requests |-> <<u>>, fallback |-> r.fallback]

\* ArticleCrawler._extract_content(url): what it returns, the requests it
\* makes and the increment of stats['fallback_used'].  Every exception is
\* caught inside and turned into ("", []).
_extract_content(table, u) ==
    IF "TIMEOUT" \notin ConfigAttrs
    THEN \* self.config.TIMEOUT raises AttributeError before session.get is called
         [content |-> EmptyText, images |-> <<>>, requests |-> <<>>, fallback |-> 0]
    ELSE IF Web(u).status # "ok"
    THEN \* requests.exceptions.RequestException
         [content |-> EmptyText, images |-> <<>>, requests |-> <<u>>, fallback |-> 0]
    ELSE Returned(ExtractPage(table, Web(u).page, u), u)

\* CrawlExcept with the append of line 99 and the length of line 95 forgotten
CrawlExcept_NoAppend(a, st) ==
    LET st1 == [st EXCEPT !.failed_crawls = @ + 1] IN
    IF ~Has(a, "title")
    THEN [article |-> a, appended |-> 0, raised |-> TRUE, stats |-> st1, events |-> <<>>]
    ELSE LET content == IF Has(a, "summary") THEN a.summary ELSE EmptyText
             a1 == Set(Set(a, "content", content), "images", <<>>)
         IN IF content = None
            THEN [article |-> a1, appended |-> 0, raised |-> TRUE, stats |-> st1,
                  events |-> <<>>]
            ELSE [article |-> Set(Set(a1, "content_length", TLen(content)),
                                  "crawl_status", "error"),
                  appended |-> 0, raised |-> FALSE, stats |-> st1, events |-> <<>>]

\* CrawlExcept keeping the content_length the stub came with (0 when it has none)
CrawlExcept_StaleLength(a, st) ==
    LET st1 == [st EXCEPT !.failed_crawls = @ + 1] IN
    IF ~Has(a, "title")
    THEN [article |-> a, appended |-> 0, raised |-> TRUE, stats |-> st1, events |-> <<>>]
    ELSE LET content == IF Has(a, "summary") THEN a.summary ELSE EmptyText
             a1 == Set(Set(a, "content", content), "images", <<>>)
         IN IF content = None
            THEN [article |-> a1, appended |-> 0, raised |-> TRUE, stats |-> st1,
                  events |-> <<>>]
            ELSE [article |-> Set(Set(a1, "content_length",
                                      IF Has(a, "content_length") THEN a.content_length ELSE 0),
                                  "crawl_status", "error"),
                  appended |-> 1, raised |-> FALSE, stats |-> st1, events |-> <<>>]

\* the except branch of the loop body of crawl_articles
CrawlExcept(a, st) ==
    LET st1 == [st EXCEPT !.failed_crawls = @ + 1] IN
    IF ~Has(a, "title")
    THEN \* article['title'] in the log message raises KeyError out of the handler
         [article |-> a, appended |-> 0, raised |-> TRUE, stats |-> st1,
          events |-> <<>>]
    ELSE LET content == IF Has(a, "summary") THEN a.summary ELSE EmptyText
             a1 == Set(Set(a, "content", content), "images", <<>>)
         IN IF content = None
            THEN \* len(None) raises TypeError out of the handler
                 [article |-> a1, appended |-> 0, raised |-> TRUE, stats |-> st1,
                  events |-> <<>>]
            ELSE [article |-> Set(Set(a1, "content_length", TLen(content)),
                                  "crawl_status", "error"),
                  appended |-> 1, raised |-> FALSE, stats |-> st1, events |-> <<>>]

\* the try branch of the loop body of crawl_articles, up to its sleep
\* lines 69-86, r being what _extract_content returned
CrawlStore(a, st, r) ==
    [article |-> Set(Set(Set(Set(a, "content", r.content), "images", r.images),
                         "content_length", TLen(r.content)),
                     "crawl_status", IF r.content # EmptyText THEN "success" ELSE "failed"),
     appended |-> 1, raised |-> FALSE,
     stats |-> IF r.content # EmptyText
               THEN [st EXCEPT !.fallback_used = @ + r.fallback, !.successful_crawls = @ + 1]
               ELSE [st EXCEPT !.fallback_used = @ + r.fallback, !.failed_crawls = @ + 1],
     events |-> [k \in 1..Len(r.requests) |-> [e |-> "get", url |-> r.requests[k]]]
                \o <<[e |-> "sleep", url |-> a.link]>>]

CrawlTry(a, st, table) == CrawlStore(a, st, _extract_content(table, a.link))

\* one iteration of "for i, article in enumerate(articles, 1)"
CrawlOne(a, st, table) ==
    IF ~Has(a, "title") \/ (Has(a, "title") /\ a.title = None) \/ ~Has(a, "link")
    THEN \* KeyError or TypeError inside the try
         CrawlExcept(a, st)
    ELSE CrawlTry(a, st, table)

----
(* GoogleNewsCollector *)

\* str.lower() on one symbol
LowerSym(c) ==
    CASE c = "AI" -> "ai"
      [] c = "GPT" -> "gpt"
      [] c = "ChatGPT" -> "chatgpt"
      [] c = "OpenAI" -> "openai"
      [] c = "Google AI" -> "google ai"
      [] c = "saengseonghyeong AI" -> "saengseonghyeong ai"
      [] c = "AI gisul" -> "ai gisul"
      [] c = "LLM" -> "llm"
      [] OTHER -> c

LowerText(t) == Canon([k \in 1..Len(t) |-> Run(LowerSym(t[k].c), t[k].n)])

\* keyword in word, for the lower-case spellings of two symbols
Occurs(keyword, word) ==
    \/ keyword = word
    \/ keyword = "gpt" /\ word = "chatgpt"
    \/ keyword = "ai" /\ word \in {"openai", "google ai", "saengseonghyeong ai", "ai gisul",
                                   "saengseonghyeong-ai", "ai-bandoche", "samsung-ai"}

\* keyword in text
Contains(t, keyword) == \E k \in 1..Len(t) : t[k].n > 0 /\ Occurs(keyword, t[k].c)

\* the list ai_keywords of is_ai_related
\* (the Korean keywords are written in romanised form)
ai_keywords == {"ingongjineung", "ai", "saengseonghyeong-ai", "chatgpt", "gpt", "llm",
                "meosinreoning", "dipreoning", "singyeongmang", "jayuljuhaeng",
                "ai-bandoche", "naver", "kakao", "samsung-ai", "clova"}

NoUrl == Url(<<>>, "")
\* no collector has been constructed
NoCollection == [max_articles |-> 0, feed |-> [ok |-> FALSE, entries |-> <<>>],
                 articles |-> <<>>, pc |-> "none"]
NoArticle == [missing |-> TRUE]

\* a datetime: minutes, seconds, microseconds
Dt(m, sec) == [m |-> m, sec |-> sec, us |-> 0]
\* datetime.now() while the feed entry read at instant at is processed
Now(at) == [m |-> 9, sec |-> 0, us |-> at]

\* GoogleNewsCollector.extract_original_url: the redirect target when the
\* HEAD request gives one, the feed link otherwise
extract_original_url(entry) == IF entry.redirect # NoUrl THEN entry.redirect ELSE entry.link

\* GoogleNewsCollector.extract_article_info
extract_article_info(entry) ==
    IF ~Has(entry, "title") \/ ~Has(entry, "link")
    THEN NoArticle   \* AttributeError, caught: returns None
    ELSE [title |-> entry.title,
          url |-> extract_original_url(entry),
          published |-> IF Has(entry, "published_parsed")
                        THEN Dt(entry.published_parsed.m, entry.published_parsed.sec)
                        ELSE Now(entry.at),
          source |-> IF Has(entry, "source") THEN entry.source ELSE "Unknown",
          summary |-> Take(IF Has(entry, "summary") THEN entry.summary ELSE EmptyText, SummaryCut),
          content |-> EmptyText,
          keywords |-> <<>>,
          category |-> "choesin AI news"]

\* GoogleNewsCollector.is_ai_related
is_ai_related(article) ==
    LET text_to_check == LowerText(article.title \o <<Run("sp", 1)>> \o article.summary)
    IN \E keyword \in ai_keywords : Contains(text_to_check, keyword)

\* the loop over feed.entries of collect_latest_news
RECURSIVE CollectEntries(_, _, _)
CollectEntries(entries, max_articles, acc) ==
    IF entries = <<>> \/ Len(acc) >= max_articles THEN acc
    ELSE LET article == extract_article_info(Head(entries)) IN
         IF article # NoArticle /\ is_ai_related(article)
         THEN CollectEntries(Tail(entries), max_articles, Append(acc, article))
         ELSE CollectEntries(Tail(entries), max_articles, acc)

\* the loop goes through the whole feed
collect_latest_news_Uncapped(feed, max_articles) ==
    IF ~feed.ok THEN <<>>
    ELSE CollectEntries(feed.entries, Len(feed.entries), <<>>)

\* GoogleNewsCollector.collect_latest_news
collect_latest_news(feed, max_articles) ==
    IF ~feed.ok THEN <<>>   \* request or parse failure, caught: returns []
    ELSE CollectEntries(feed.entries, max_articles, <<>>)

----
(* AISummarizer (ai_summarizer.py).  The methods are modelled as they run  *)
(* on an existing summariser object; its __init__ (lines 14-19) is not     *)
(* part of the calls.                                                      *)

\* Config.AI_KEYWORDS (the Korean keywords are written in romanised form)
AI_KEYWORDS == <<"artificial intelligence", "AI", "machine learning", "deep learning",
                 "neural network", "ChatGPT", "OpenAI", "Google AI", "ingongjineung",
                 "meosinreoning", "dipreoning", "saengseonghyeong AI", "AI gisul",
                 "LLM", "GPT">>

TopLimit == 10
KeywordCut == 5
AiSummaryCut == 200
AiFallbackCut == 150
ExceptSummaryCut == 200

\* the list _get_top_keywords returns when no keyword was collected
DefaultTopKeywords == <<"ingongjineung", "AI", "gisul", "nyuseu", "hyeoksin">>
\* the category of the except branch of generate_summary and of _categorize_article
DefaultCategory == "AI nyuseu"

Ellipsis == <<Run(".", 3)>>
AttributeError == "AttributeError"
\* the chat completion request failed
NoReply == None

DateUnknown == [m |-> -1]

Min(a, b) == IF a < b THEN a ELSE b

InSeq(x, q) == \E k \in 1..Len(q) : q[k] = x

\* the keys of Counter(list), in the order they were first seen
RECURSIVE FirstSeen(_, _)
FirstSeen(list, acc) ==
    IF list = <<>> THEN acc
    ELSE FirstSeen(Tail(list), IF InSeq(Head(list), acc) THEN acc ELSE Append(acc, Head(list)))

\* Counter(list)[key]
Count(list, key) == Cardinality({i \in 1..Len(list) : list[i] = key})

RemoveAt(q, i) == SubSeq(q, 1, i - 1) \o SubSeq(q, i + 1, Len(q))

\* sorted(items, key=count, reverse=True): among equal counts the later key first
RECURSIVE SortByCount_LastTie(_, _)
SortByCount_LastTie(keys, list) ==
    IF keys = <<>> THEN <<>>
    ELSE LET best == CHOOSE i \in 1..Len(keys) :
                         /\ \A j \in 1..Len(keys) : Count(list, keys[j]) <= Count(list, keys[i])
                         /\ \A j \in (i + 1)..Len(keys) :
                                Count(list, keys[j]) < Count(list, keys[i])
         IN <<keys[best]>> \o SortByCount_LastTie(RemoveAt(keys, best), list)

\* sorted(items, key=count, reverse=True): a stable sort, equal counts stay
\* in the order of the keys
RECURSIVE SortByCount(_, _)
SortByCount(keys, list) ==
    IF keys = <<>> THEN <<>>
    ELSE LET best == CHOOSE i \in 1..Len(keys) :
                         /\ \A j \in 1..Len(keys) : Count(list, keys[j]) <= Count(list, keys[i])
                         /\ \A j \in 1..(i - 1) : Count(list, keys[j]) < Count(list, keys[i])
         IN <<keys[best]>> \o SortByCount(RemoveAt(keys, best), list)

\* most_common with the ties of the sort turned round
most_common_LastTie(list, n) ==
    LET sorted == SortByCount_LastTie(FirstSeen(list, <<>>), list)
    IN SubSeq(sorted, 1, Min(n, Len(sorted)))

\* Counter(list).most_common(n), keys only
most_common(list, n) ==
    LET sorted == SortByCount(FirstSeen(list, <<>>), list)
    IN SubSeq(sorted, 1, Min(n, Len(sorted)))

\* AISummarizer._get_top_keywords
_get_top_keywords(keywords) ==
    IF keywords = <<>> THEN DefaultTopKeywords ELSE most_common(keywords, TopLimit)

\* AISummarizer._format_published_date: minutes are kept, seconds dropped
_format_published_date(article) ==
    IF ~Has(article, "published") THEN DateUnknown
    ELSE [m |-> article.published.m]

\* AISummarizer._generate_ai_summary, reply being what the chat completion gave
_generate_ai_summary(article, reply) ==
    IF reply = NoReply
    THEN Concat(Take(article.summary, AiFallbackCut), Ellipsis)
    ELSE Take(Strip(reply), AiSummaryCut)

\* f"{article['title']} {summary}".lower()
TitleAndSummary(title, summary) == LowerText(title \o <<Run("sp", 1)>> \o summary)

\* _extract_keywords without the cut of line 159
_extract_keywords_Uncut(article, summary) ==
    SelectSeq(AI_KEYWORDS,
              LAMBDA keyword : Contains(TitleAndSummary(article.title, summary),
                                        LowerSym(keyword)))

\* AISummarizer._extract_keywords
_extract_keywords(article, summary) ==
    LET found_keywords ==
            SelectSeq(AI_KEYWORDS,
                      LAMBDA keyword : Contains(TitleAndSummary(article.title, summary),
                                                LowerSym(keyword)))
    IN SubSeq(found_keywords, 1, Min(KeywordCut, Len(found_keywords)))

\* the two loops of _categorize_article over a category table
RECURSIVE FirstCategory(_, _)
FirstCategory(table, text) ==
    IF table = <<>> THEN DefaultCategory
    ELSE IF \E k \in 1..Len(Head(table).keywords) :
                Contains(text, LowerSym(Head(table).keywords[k]))
    THEN Head(table).category
    ELSE FirstCategory(Tail(table), text)

\* AISummarizer._categorize_article: class Config defines no
\* CATEGORY_KEYWORDS, so line 167 raises AttributeError before any keyword
\* is looked at
_categorize_article(article, summary) ==
    IF "CATEGORY_KEYWORDS" \notin ConfigAttrs THEN AttributeError
    ELSE FirstCategory(<<>>, TitleAndSummary(article.title, summary))

\* lines 59-69: the record of the except branch
SummaryExcept(article) ==
    [record |-> [title |-> article.title,
                 summary |-> Concat(Take(article.summary, ExceptSummaryCut), Ellipsis),
                 url |-> article.url,
                 published |-> _format_published_date(article),
                 source |-> article.source,
                 keywords |-> <<>>,
                 category |-> DefaultCategory],
     keywords |-> <<>>]

\* lines 44-55: the record of the try branch, once summary, keywords and
\* category are there; the AttributeError of the category leaves the try
\* before the record is appended and before all_keywords is extended
SummaryTry(article, summary, keywords, category) ==
    IF category = AttributeError THEN SummaryExcept(article)
    ELSE [record |-> [title |-> article.title,
                      summary |-> summary,
                      url |-> article.url,
                      published |-> _format_published_date(article),
                      source |-> article.source,
                      keywords |-> keywords,
                      category |-> category],
          keywords |-> keywords]

SummaryWith(article, summary) ==
    SummaryTry(article, summary, _extract_keywords(article, summary),
               _categorize_article(article, summary))

\* one pass of "for i, article in enumerate(articles, 1)" of generate_summary
SummarizeOne(article, reply) == SummaryWith(article, _generate_ai_summary(article, reply))

\* AISummarizer._generate_overall_summary
_generate_overall_summary(list, reply) ==
    IF list = <<>> THEN <<Run("none collected", 1)>>
    ELSE IF reply = NoReply THEN <<Run("count", Len(list))>>
    ELSE Strip(reply)

----
(* main.py: create_simple_summary *)

PreviewCut == 500

NoContent == <<Run("No Content", 1)>>
NoSummary == [total_articles |-> -1]
\* no run of main(): its settings, the stage it stands at, the stages it has
\* entered, the error notifications and success messages it has sent, the
\* URL of the Notion page, what the Telegram send returned, what main() returned
NoMainRun == [env |-> {}, reached |-> "none", stages |-> <<>>, errors |-> 0, sent |-> 0,
              notion_url |-> None, telegram_success |-> "none", ret |-> "none"]

\* main() enters a stage
Stage(run, s) == [run EXCEPT !.reached = s, !.stages = Append(@, s)]

\* send_error_notification(error_msg), which catches what the sender
\* raises (lines 121-128), then return False
Fail(run) == [run EXCEPT !.errors = @ + 1, !.ret = "False"]

\* the order of two datetimes
TimeKey(t) == (t.m * 60 + t.sec) * 1000000 + t.us

\* sorted(articles, key=published, reverse=True): a stable sort, the later
\* article first
RECURSIVE SortByPublished(_)
SortByPublished(list) ==
    IF list = <<>> THEN <<>>
    ELSE LET latest == CHOOSE i \in 1..Len(list) :
                           /\ \A j \in 1..Len(list) :
                                  TimeKey(list[j].published) <= TimeKey(list[i].published)
                           /\ \A j \in 1..(i - 1) :
                                  TimeKey(list[j].published) < TimeKey(list[i].published)
         IN <<list[latest]>> \o SortByPublished(RemoveAt(list, latest))

\* strftime('%Y-%m-%d %H:%M:%S'): the microseconds are dropped
FormatSeconds(t) == [m |-> t.m, sec |-> t.sec]

\* article_data measuring the preview instead of the content
ArticleData_PreviewLength(article, i) ==
    [rank |-> i,
     title |-> article.title,
     source |-> article.source,
     published |-> FormatSeconds(article.published),
     url |-> article.url,
     content |-> IF article.content # EmptyText
                 THEN Concat(Take(article.content, PreviewCut), Ellipsis) ELSE NoContent,
     content_length |-> IF article.content # EmptyText
                        THEN TLen(Concat(Take(article.content, PreviewCut), Ellipsis))
                        ELSE TLen(NoContent)]

\* lines 69-78: article_data of the article at rank i
ArticleData(article, i) ==
    [rank |-> i,
     title |-> article.title,
     source |-> article.source,
     published |-> FormatSeconds(article.published),
     url |-> article.url,
     content |-> IF article.content # EmptyText
                 THEN Concat(Take(article.content, PreviewCut), Ellipsis) ELSE NoContent,
     content_length |-> TLen(article.content)]

\* lines 84-87: the search keywords found in title and content of one article
KeywordsIn(article, search) ==
    {search[k] : k \in {j \in 1..Len(search) :
        Contains(LowerText(article.title \o <<Run("sp", 1)>> \o article.content),
                 LowerSym(search[j]))}}

RECURSIVE SumLengths(_)
SumLengths(data) ==
    IF data = <<>> THEN 0 ELSE Head(data).content_length + SumLengths(Tail(data))

\* lines 92-106, data being the article_data records in rank order
SummaryOf(list, data, search) ==
    [total_articles |-> Len(list),
     articles |-> data,
     sources |-> {data[k].source : k \in 1..Len(data)},
     keywords_found |-> UNION {KeywordsIn(list[k], search) : k \in 1..Len(list)},
     latest |-> IF data = <<>> THEN DateUnknown ELSE data[1].published,
     earliest |-> IF data = <<>> THEN DateUnknown ELSE data[Len(data)].published,
     total_sources |-> Cardinality({data[k].source : k \in 1..Len(data)}),
     avg_content_length |-> IF data = <<>> THEN 0 ELSE SumLengths(data) \div Len(data)]

RankedData(sorted) == [i \in 1..Len(sorted) |-> ArticleData(sorted[i], i)]

\* create_simple_summary writing the preview of the content back into the article
create_simple_summary_InPlace(list, search) ==
    [list |-> [k \in 1..Len(list) |->
                  [list[k] EXCEPT !.content = ArticleData(list[k], k).content]],
     data |-> SummaryOf(list, RankedData(SortByPublished(list)), search)]

\* create_simple_summary(articles), search being what Config.get_search_keywords
\* returns: the articles as the call leaves them and the summary data returned
create_simple_summary(list, search) ==
    [list |-> list,
     data |-> SummaryOf(list, RankedData(SortByPublished(list)), search)]

----
(* GoogleSheetsManager (google_sheets_manager.py) and KeywordManager       *)
(* (keyword_manager.py).  Time is counted in seconds.  A sheet is what     *)
(* worksheet.get_all_values() gives: a list of rows of cells, the first    *)
(* row being the header, or the exception it raises.  The cache            *)
(* cached_keywords holds None as the empty list: the code tests it for     *)
(* truth only and never stores an empty list.                              *)

cache_duration == 300
RetryDelay == 60

\* self.last_update: None, or a datetime
Never == [set |-> FALSE, t |-> 0]
At(t) == [set |-> TRUE, t |-> t]

Kw(keyword, category, priority) ==
    [keyword |-> keyword, category |-> category, priority |-> priority, active |-> TRUE]

\* self.fallback_keywords (the Korean keywords are written in romanised form)
fallback_keywords == <<
    Kw("ingongjineung", "AI", 1), Kw("ChatGPT", "AI", 1), Kw("saengseonghyeongAI", "AI", 1),
    Kw("naver", "TECH", 2), Kw("kakao", "TECH", 2), Kw("AI", "AI", 1),
    Kw("meosinreoning", "AI", 2), Kw("dipreoning", "AI", 2), Kw("jayuljuhaeng", "TECH", 2),
    Kw("LLM", "AI", 2) >>

\* str.strip() on a cell
StripCell(c) ==
    CASE c = " AI " -> "AI"
      [] c = " " -> ""
      [] OTHER -> c

\* str.upper() on a cell
UpperCell(c) ==
    CASE c = "true" -> "TRUE"
      [] c = "y" -> "Y"
      [] c = "ai" -> "AI"
      [] c = "tech" -> "TECH"
      [] OTHER -> c

\* GoogleSheetsManager._safe_int
_safe_int(value) ==
    CASE StripCell(value) = "" -> 1
      [] StripCell(value) = "1" -> 1
      [] StripCell(value) = "2" -> 2
      [] StripCell(value) = "3" -> 3
      [] OTHER -> 1

\* GoogleSheetsManager._safe_bool (the two Korean spellings are romanised)
_safe_bool(value) ==
    IF value = "" THEN TRUE
    ELSE UpperCell(StripCell(value)) \in {"TRUE", "T", "1", "YES", "Y", "cham", "hwalseong"}

\* headers.index(col) counted from 1, 0 when the column is absent
RECURSIVE IndexFrom(_, _, _)
IndexFrom(headers, col, k) ==
    IF k > Len(headers) THEN 0
    ELSE IF headers[k] = col THEN k
    ELSE IndexFrom(headers, col, k + 1)
HeaderIndex(headers, col) == IndexFrom(headers, col, 1)

\* row[header_map.get(col, -1)] if header_map.get(col, -1) < len(row) else default:
\* for an absent column the index -1 reads the last cell of the row
CellOr(row, h, default) ==
    IF h = 0 THEN row[Len(row)]
    ELSE IF h <= Len(row) THEN row[h]
    ELSE default

\* lines 244-250: the record of one row
keyword_data(row, headers, i) ==
    [keyword |-> StripCell(row[HeaderIndex(headers, "keyword")]),
     category |-> IF HeaderIndex(headers, "category") <= Len(row)
                  THEN StripCell(CellOr(row, HeaderIndex(headers, "category"), "GENERAL"))
                  ELSE "GENERAL",
     priority |-> _safe_int(CellOr(row, HeaderIndex(headers, "priority"), "1")),
     active |-> _safe_bool(CellOr(row, HeaderIndex(headers, "active"), "TRUE")),
     row_number |-> i]

\* lines 235-252: the loop over the data rows, i being the number of the row
RECURSIVE LoadRows(_, _, _)
LoadRows(rows, headers, i) ==
    IF rows = <<>> THEN <<>>
    ELSE IF Len(Head(rows)) < HeaderIndex(headers, "keyword")
         THEN LoadRows(Tail(rows), headers, i + 1)
    ELSE IF StripCell(Head(rows)[HeaderIndex(headers, "keyword")]) = ""
         THEN LoadRows(Tail(rows), headers, i + 1)
    ELSE <<keyword_data(Head(rows), headers, i)>> \o LoadRows(Tail(rows), headers, i + 1)

\* lines 204-267 of load_keywords_from_sheet, the worksheet being connected
LoadValues(sheet) ==
    IF sheet.status = "error" THEN <<>>
    ELSE IF sheet.values = <<>> THEN <<>>
    ELSE IF HeaderIndex(sheet.values[1], "keyword") = 0 THEN <<>>
    ELSE SelectSeq(LoadRows(Tail(sheet.values), sheet.values[1], 2), LAMBDA k : k.active)

\* GoogleSheetsManager.load_keywords_from_sheet; connects tells whether
\* _initialize_client succeeds when the worksheet is not connected
load_keywords_from_sheet(ws, sheet, connects) ==
    IF ~ws /\ ~connects THEN [keywords |-> <<>>, worksheet |-> FALSE]
    ELSE [keywords |-> LoadValues(sheet), worksheet |-> TRUE]

\* GoogleSheetsManager._should_refresh_cache
_should_refresh_cache(lu, t) ==
    IF ~lu.set THEN TRUE ELSE t - lu.t > cache_duration

\* get_keywords handing out what the load returned, without the fallback
AfterLoad_NoFallback(cached, lu, t, l) ==
    [keywords |-> l.keywords,
     cached_keywords |-> IF l.keywords # <<>> THEN l.keywords ELSE cached,
     last_update |-> IF l.keywords # <<>> THEN At(t) ELSE lu,
     worksheet |-> l.worksheet, loaded |-> TRUE, ok |-> l.keywords # <<>>]

\* lines 293-307 of get_keywords, once the load has returned
AfterLoad(cached, lu, t, l) ==
    IF l.keywords # <<>>
    THEN [keywords |-> l.keywords, cached_keywords |-> l.keywords, last_update |-> At(t),
          worksheet |-> l.worksheet, loaded |-> TRUE, ok |-> TRUE]
    ELSE [keywords |-> fallback_keywords,
          cached_keywords |-> IF cached = <<>> THEN fallback_keywords ELSE cached,
          last_update |-> IF cached = <<>> THEN At(t - (cache_duration - RetryDelay)) ELSE lu,
          worksheet |-> l.worksheet, loaded |-> TRUE, ok |-> FALSE]

\* GoogleSheetsManager.get_keywords on the manager m = [cached_keywords,
\* last_update, worksheet] at time t
get_keywords(use_cache, m, t, sheet, connects) ==
    IF use_cache /\ m.cached_keywords # <<>> /\ ~_should_refresh_cache(m.last_update, t)
    THEN [keywords |-> m.cached_keywords, cached_keywords |-> m.cached_keywords,
          last_update |-> m.last_update, worksheet |-> m.worksheet,
          loaded |-> FALSE, ok |-> FALSE]
    ELSE AfterLoad(m.cached_keywords, m.last_update, t,
                   load_keywords_from_sheet(m.worksheet, sheet, connects))

\* GoogleSheetsManager.refresh_cache
refresh_cache(m, t, sheet, connects) ==
    get_keywords(FALSE, [m EXCEPT !.last_update = Never], t, sheet, connects)

\* list.sort(key=lambda x: x['priority']): stable
RECURSIVE InsertByPriority(_, _)
InsertByPriority(sorted, k) ==
    IF sorted = <<>> THEN <<k>>
    ELSE IF Head(sorted).priority <= k.priority
         THEN <<Head(sorted)>> \o InsertByPriority(Tail(sorted), k)
    ELSE <<k>> \o sorted
RECURSIVE SortByPriority(_, _)
SortByPriority(list, acc) ==
    IF list = <<>> THEN acc
    ELSE SortByPriority(Tail(list), InsertByPriority(acc, Head(list)))

KeywordsOf(records) == [k \in 1..Len(records) |-> records[k].keyword]

NoCategory == "None"

\* GoogleSheetsManager.get_keywords_by_category(category), priority None,
\* on the records get_keywords returned
get_keywords_by_category(records, category) ==
    KeywordsOf(SortByPriority(
        IF category = NoCategory THEN records
        ELSE SelectSeq(records,
                       LAMBDA k : UpperCell(k.category) = UpperCell(category)),
        <<>>))

\* GoogleSheetsManager.get_all_keywords_list, on the same records
get_all_keywords_list(records) == KeywordsOf(records)

\* KeywordManager.default_ai_keywords and default_tech_keywords
default_ai_keywords == AI_KEYWORDS
default_tech_keywords == <<"technology", "tech", "software", "programming", "developer",
                           "gisul", "sopeuteuweeo", "gaebalja", "IT", "seutateueop",
                           "naver", "kakao", "samsung", "jayuljuhaeng", "beullokchein">>
priority_keywords == <<"AI", "ingongjineung", "ChatGPT", "saengseonghyeongAI", "meosinreoning">>

\* KeywordManager._get_keywords_from_sheets, on the records get_keywords returned
_get_keywords_from_sheets(records, category) ==
    IF category # NoCategory THEN get_keywords_by_category(records, category)
    ELSE get_all_keywords_list(records)

\* KeywordManager._get_default_keywords
_get_default_keywords(category) ==
    IF category # NoCategory /\ UpperCell(category) = "AI" THEN default_ai_keywords
    ELSE IF category # NoCategory /\ UpperCell(category) = "TECH" THEN default_tech_keywords
    ELSE default_ai_keywords \o default_tech_keywords

\* KeywordManager._clean_keywords
RECURSIVE CleanFrom(_, _)
CleanFrom(keywords, cleaned) ==
    IF keywords = <<>> THEN cleaned
    ELSE CleanFrom(Tail(keywords),
                   IF StripCell(Head(keywords)) # "" /\ ~InSeq(StripCell(Head(keywords)), cleaned)
                   THEN Append(cleaned, StripCell(Head(keywords))) ELSE cleaned)
_clean_keywords(keywords) == CleanFrom(keywords, <<>>)

\* KeywordManager._sort_by_priority
_sort_by_priority(keywords) ==
    SelectSeq(priority_keywords, LAMBDA p : InSeq(p, keywords))
        \o SelectSeq(keywords, LAMBDA k : ~InSeq(k, priority_keywords))

\* lines 47-60 of get_search_keywords: the keywords of the chosen source, g being
\* what get_keywords did when the sheet was asked
SourceKeywords(source, category, g) ==
    IF source = "default" THEN _get_default_keywords(category)
    ELSE IF source = "sheets" THEN _get_keywords_from_sheets(g.keywords, category)
    ELSE IF _get_keywords_from_sheets(g.keywords, category) # <<>>
         THEN _get_keywords_from_sheets(g.keywords, category)
    ELSE _get_default_keywords(category)

\* lines 66-79 of get_search_keywords; max_count 0 stands for None
Limited(keywords, max_count) ==
    IF max_count # 0 /\ Len(keywords) > max_count THEN SubSeq(keywords, 1, max_count)
    ELSE keywords

\* KeywordManager.get_search_keywords
get_search_keywords(source, category, max_count, g) ==
    Limited(_sort_by_priority(_clean_keywords(SourceKeywords(source, category, g))),
            max_count)

----
(* Inputs *)

T_ai == <<Run("a", 6), Run("sp", 1), Run("AI", 1), Run("sp", 1), Run("a", 6)>>
T_plain == <<Run("b", 8)>>

\* the stubs a caller of crawl_articles may pass
StubChoices == {
    [title |-> T_ai, link |-> U_article, summary |-> ShortText],
    [title |-> T_plain, link |-> U_timeout, summary |-> ShortText],
    [title |-> T_plain, link |-> U_blank],
    [title |-> T_ai, summary |-> ShortText],
    [title |-> T_plain, summary |-> None],
    [title |-> None, link |-> U_article, summary |-> ShortText],
    [link |-> U_article, summary |-> ShortText] }

\* the entries a feed may hold
EntryChoices == {
    [title |-> T_ai, link |-> U_article, redirect |-> NoUrl, summary |-> ShortText,
     published_parsed |-> [m |-> 5, sec |-> 30], source |-> "AI Times"],
    [title |-> T_plain, link |-> U_gone, redirect |-> U_timeout,
     summary |-> <<Run("GPT", 1), Run("sp", 1)>>],
    [title |-> T_plain, link |-> U_blank, redirect |-> NoUrl],
    [link |-> U_article, redirect |-> NoUrl] }

\* the entries of a feed, each with the instant at which the collector reads it
RECURSIVE Clocked(_, _)
Clocked(entries, at) ==
    IF entries = <<>> THEN <<>>
    ELSE <<Set(Head(entries), "at", at)>> \o Clocked(Tail(entries), at + 1)

RECURSIVE SeqsUpTo(_, _)
SeqsUpTo(S, n) ==
    IF n = 0 THEN {<<>>}
    ELSE LET shorter == SeqsUpTo(S, n - 1) IN
         shorter \cup {Append(q, x) : q \in {r \in shorter : Len(r) = n - 1}, x \in S}

EnvChoices == {RequiredSettings, RequiredSettings \ {"OPENAI_API_KEY"}}

\* what Config.get_search_keywords may return: the keywords of the sheet or
\* the default keywords
SearchKeywordChoices == {AI_KEYWORDS, <<"GPT", "seutateueop">>}

NoResult == [content |-> EmptyText, images |-> <<>>, from |-> "unset", sel |-> "",
             fallback |-> 0, table |-> <<>>]

HugeLen == 1200
EdgeText == <<Run("a", MinContentLength)>>
HugeText == <<Run("a", HugeLen)>>
MessyText == <<Run("sp", 2), Run("a", LongLen), Run("nl", 1), Run("zw", 1), Run("sp", 1),
               Run("b", ShortLen), Run("bom", 1)>>

Pic == Src("pic", FALSE, TRUE, FALSE)
Logo == Src("logo", FALSE, TRUE, TRUE)
Icon == Src("icon", TRUE, FALSE, TRUE)
Plain == Src("plain", TRUE, FALSE, FALSE)

\* the elements the pages of the extractor are built from
NodeChoices == {
    Box("article", <<Str(LongText)>>),
    Box("article", <<Str(ShortText), NoiseP(LongText), NoiseImg(Pic)>>),
    Box("article", <<Str(ShortText), NoiseBox(".article-content", LongText)>>),
    Box(".article-content", <<Str(LongText)>>),
    Box(".article-content", <<Str(EdgeText)>>),
    Box(".entry-content", <<Str(MessyText), P(ShortText), NoiseStr(HugeText)>>),
    P(ShortText),
    P(EmptyText),
    Str(HugeText),
    Box("div", <<Img(Pic), Img(Icon), LazyImg(Plain), Img(Logo), Img(Plain), Img(Pic),
                 Img(Plain)>>) }

MaxNodes == 2
MaxExtracts == 3
MaxCustom == 1

\* documents with a body, and the shorter documents without one
Pages ==
    {Page(TRUE, nodes) : nodes \in SeqsUpTo(NodeChoices, MaxNodes)}
        \cup {Page(FALSE, nodes) : nodes \in SeqsUpTo(NodeChoices, MaxNodes - 1)}

U_tc == Url(<<"www.", "TechCrunch", ".com">>, "post")
\* a host of another site whose name merely contains a name of the table
U_mirror == Url(<<"zdnet", ".co.kr", ".example", ".com">>, "news")
Urls == {U_article, U_tc, U_mirror}

\* the page extracted before the one under observation
WarmPages == {Page(TRUE, <<P(ShortText)>>)}

\* the URL of a created Notion page
NotionPage == <<Run("https://www.notion.so/page", 1)>>

\* what the Notion API answers to the creation of the page
NotionResponses == {
    [raised |-> FALSE, status_code |-> 200, url |-> NotionPage],
    [raised |-> FALSE, status_code |-> 200, url |-> EmptyText],
    [raised |-> FALSE, status_code |-> 400, url |-> EmptyText],
    [raised |-> TRUE, status_code |-> 0, url |-> EmptyText] }

\* what becomes of the Telegram success message
Sendings == {
    [raised |-> FALSE, delivered |-> TRUE],
    [raised |-> FALSE, delivered |-> FALSE],
    [raised |-> TRUE, delivered |-> FALSE] }

\* what a caller may register with add_custom_selector
CustomChoices == {
    [domain |-> <<"example", ".com">>, selectors |-> <<".entry-content", "article">>],
    [domain |-> <<"techcrunch", ".com">>, selectors |-> <<>>] }

----
(* The crawl: the state machine *)

\* the crawler and the summariser as constructed, nothing called yet
InitPipeline ==
    /\ stats = ZeroStats
    /\ content_selectors = InitContentSelectors
    /\ articles = <<>>
    /\ crawled_articles = <<>>
    /\ idx = 0
    /\ pc = "idle"
    /\ calls = 0
    /\ viaMain = FALSE
    /\ log = <<>>
    /\ main_run = NoMainRun
    /\ summary_data = NoSummary
    /\ markup = BlankPage
    /\ source_url = U_article
    /\ soup = BlankPage
    /\ result = NoResult
    /\ first = NoResult
    /\ extracts = 0
    /\ sum_articles = <<>>
    /\ summarized_articles = <<>>
    /\ top_keywords = <<>>
    /\ overall_summary = EmptyText
    /\ sum_pc = "idle"
    /\ last_summary = EmptyText
    /\ last_keywords = <<>>
    /\ sum_calls = 0
    /\ clock = 0
    /\ cached_keywords = <<>>
    /\ last_update = [set |-> FALSE, t |-> 0]
    /\ sheet_op = [name |-> "none"]
    /\ returned = <<>>
    /\ kw_result = <<>>
    /\ last_load = [set |-> FALSE, t |-> 0, ok |-> FALSE]
    /\ last_loaded = <<>>
    /\ sheet_calls = 0
    /\ is_running = FALSE
    /\ execution_count = 0
    /\ success_count = 0
    /\ last_execution = 0
    /\ invocation = [i \in 1..MaxInvocations |-> NotInvoked]
    /\ ended = 0

Init ==
    /\ InitPipeline
    /\ all_keywords = <<>>
    /\ worksheet = FALSE
    /\ collection = NoCollection

\* crawl_articles(list) called on the existing crawler: lines 58-61
CallCrawl(list) ==
    /\ pc \in {"idle", "returned", "raised"}
    /\ calls < MaxRuns
    /\ calls' = calls + 1
    /\ articles' = list
    /\ crawled_articles' = <<>>
    /\ stats' = [stats EXCEPT !.total_attempts = Len(list)]
    /\ idx' = 0
    /\ pc' = "loop"
    /\ viaMain' = FALSE
    /\ log' = <<>>
    /\ main_run' = NoMainRun
    /\ summary_data' = NoSummary
    /\ UNCHANGED <<content_selectors, extractVars, summaryVars,
                   serviceVars>>

\* main() from the result of its steps 1 and 2 on: lines 243-255
MainCrawl(collected) ==
    IF collected = <<>>
    THEN \* ValueError of validate_config, or no article: main returns False
         /\ pc' = "idle"
         /\ articles' = <<>>
         /\ UNCHANGED <<stats, content_selectors>>
    ELSE /\ pc' = "loop"
         /\ articles' = collected
         /\ stats' = [ZeroStats EXCEPT !.total_attempts = Len(collected)]
         /\ content_selectors' = InitContentSelectors

\* the step at which main() stands after its steps 1 and 2: lines 230-247
Reached(env, feed) ==
    IF ~validate_config(env) THEN "validate"
    ELSE IF collect_latest_news(feed, MAX_ARTICLES) = <<>> THEN "collect"
    ELSE "crawl"

\* main(), steps 1 and 2: the ValueError of validate_config is caught by the
\* handler of lines 329-337, an empty collection is reported at lines 243-247
MainStart(env, feed) ==
    LET validate == Stage([NoMainRun EXCEPT !.env = env], "validate")
        collect == Stage(validate, "collect")
    IN  CASE Reached(env, feed) = "validate" -> Fail(validate)
          [] Reached(env, feed) = "collect" -> Fail(collect)
          [] OTHER -> Stage(collect, "crawl")

\* main(), steps 1 to 3 up to the call of crawl_articles on a new ArticleCrawler
Main(env, feed) ==
    /\ pc \in {"idle", "returned", "raised"}
    /\ calls < MaxRuns
    /\ calls' = calls + 1
    /\ MainCrawl(IF validate_config(env)
                 THEN collect_latest_news(feed, MAX_ARTICLES) ELSE <<>>)
    /\ main_run' = MainStart(env, feed)
    /\ summary_data' = NoSummary
    /\ crawled_articles' = <<>>
    /\ idx' = 0
    /\ viaMain' = TRUE
    /\ log' = <<>>
    /\ UNCHANGED <<extractVars, summaryVars,
                   serviceVars>>

\* one pass of the loop body of crawl_articles: lines 63-99
CrawlApply(o) ==
    /\ articles' = [articles EXCEPT ![idx + 1] = o.article]
    /\ crawled_articles' = crawled_articles \o [k \in 1..o.appended |-> idx + 1]
    /\ stats' = o.stats
    /\ log' = log \o o.events
    /\ pc' = IF o.raised THEN "raised" ELSE "loop"
    /\ idx' = IF o.raised THEN idx ELSE idx + 1

CrawlStep ==
    /\ pc = "loop"
    /\ idx < Len(articles)
    /\ CrawlApply(CrawlOne(articles[idx + 1], stats, content_selectors))
    /\ UNCHANGED <<content_selectors, calls, viaMain, main_run, summary_data, extractVars,
                   summaryVars,
                   serviceVars>>

\* the end of crawl_articles: lines 101-102
CrawlReturn ==
    /\ pc = "loop"
    /\ idx = Len(articles)
    /\ pc' = "returned"
    /\ UNCHANGED <<stats, content_selectors, articles, crawled_articles, idx, calls,
                   viaMain, log, main_run, summary_data, extractVars, summaryVars,
                   serviceVars>>

\* the articles of the list as create_simple_summary left them, o being
\* what it did with the records of crawled_articles
SummarizeApply(o) ==
    /\ articles' = [k \in 1..Len(articles) |->
                        IF InSeq(k, crawled_articles)
                        THEN o.list[CHOOSE j \in 1..Len(crawled_articles) :
                                        crawled_articles[j] = k]
                        ELSE articles[k]]
    /\ summary_data' = o.data

\* main(), the end of step 3 and step 4: an exception of crawl_articles
\* (lines 329-337) or an empty result (lines 256-260) ends the run, otherwise
\* create_simple_summary(crawled_articles), lines 262-268
Summarize(search) ==
    /\ pc \in {"returned", "raised"}
    /\ viaMain
    /\ main_run.reached = "crawl"
    /\ main_run.ret = "none"
    /\ IF pc = "raised" \/ crawled_articles = <<>>
       THEN /\ main_run' = Fail(main_run)
            /\ UNCHANGED <<articles, summary_data>>
       ELSE /\ SummarizeApply(create_simple_summary(
                   [k \in 1..Len(crawled_articles) |-> articles[crawled_articles[k]]],
                   search))
            /\ main_run' = Stage(main_run, "summarize")
    /\ UNCHANGED <<stats, content_selectors, crawled_articles, idx, pc, calls, viaMain,
                   log, extractVars, summaryVars,
                   serviceVars>>

\* main(), step 5: create_simple_html_report(summary_data), lines 270-274
Report ==
    /\ viaMain
    /\ main_run.reached = "summarize"
    /\ main_run' = Stage(main_run, "report")
    /\ UNCHANGED <<stats, content_selectors, articles, crawled_articles, idx, pc, calls,
                   viaMain, log, summary_data, extractVars, summaryVars, serviceVars>>

\* NotionSaver.save_to_notion: the URL of the created page, None when the
\* request raises or the status is not 200 (notion_saver.py lines 35-101)
save_to_notion(response) ==
    IF response.raised THEN None
    ELSE IF response.status_code = 200 THEN response.url
    ELSE None

\* any value but None counts as a saved page
Saved_NotNone(notion_url) == notion_url # None

\* line 282: if not notion_url
Saved(notion_url) == notion_url # None /\ notion_url # EmptyText

\* main(), step 6: lines 276-288
NotionSave(response) ==
    /\ viaMain
    /\ main_run.reached = "report"
    /\ LET notion_url == save_to_notion(response)
           run == [Stage(main_run, "notion") EXCEPT !.notion_url = notion_url]
       IN  main_run' = IF Saved(notion_url) THEN run ELSE Fail(run)
    /\ UNCHANGED <<stats, content_selectors, articles, crawled_articles, idx, pc, calls,
                   viaMain, log, summary_data, extractVars, summaryVars, serviceVars>>

\* send_success_notification: what send_summary_message returns, False when
\* it raises (lines 110-119)
send_success_notification(sending) ==
    IF sending.raised THEN "False"
    ELSE IF sending.delivered THEN "True" ELSE "False"

\* main(), step 7 and the return: lines 290-327
TelegramSend(sending) ==
    /\ viaMain
    /\ main_run.reached = "notion"
    /\ main_run.ret = "none"
    /\ main_run' = [Stage(main_run, "telegram") EXCEPT
                        !.sent = @ + 1,
                        !.telegram_success = send_success_notification(sending),
                        !.ret = "True"]
    /\ UNCHANGED <<stats, content_selectors, articles, crawled_articles, idx, pc, calls,
                   viaMain, log, summary_data, extractVars, summaryVars, serviceVars>>

\* create_simple_summary called on the empty result of a direct call of
\* crawl_articles
SimpleSummary(search) ==
    /\ pc = "returned"
    /\ ~viaMain
    /\ crawled_articles = <<>>
    /\ summary_data = NoSummary
    /\ summary_data' = create_simple_summary(<<>>, search).data
    /\ UNCHANGED <<stats, content_selectors, articles, crawled_articles, idx, pc, calls,
                   viaMain, log, main_run, extractVars, summaryVars, serviceVars>>

Next ==
    \/ \E list \in SeqsUpTo(StubChoices, MaxStubs) : CallCrawl(list)
    \/ \E env \in EnvChoices, entries \in SeqsUpTo(EntryChoices, MaxEntries), ok \in BOOLEAN :
           Main(env, [ok |-> ok, entries |-> Clocked(entries, 1)])
    \/ CrawlStep
    \/ CrawlReturn
    \/ \E search \in SearchKeywordChoices : Summarize(search)
    \/ Report
    \/ \E response \in NotionResponses : NotionSave(response)
    \/ \E sending \in Sendings : TelegramSend(sending)
    \/ \E search \in SearchKeywordChoices : SimpleSummary(search)

Spec == Init /\ [][Next]_vars

----
(* Properties of crawl_articles *)

\* the records crawl_articles has appended so far
Appended == {articles[crawled_articles[k]] : k \in 1..Len(crawled_articles)}

\* the stub can be read by the try branch up to the call of _extract_content
Readable(a) == Has(a, "title") /\ a.title # None /\ Has(a, "link")

C2_FetchErrorGivesErrorRecord ==
    \A a \in Appended :
        (Readable(a) /\ Web(a.link).status # "ok")
        => /\ a.crawl_status = "error"
           /\ a.content = (IF Has(a, "summary") THEN a.summary ELSE EmptyText)
           /\ a.images = <<>>

\* C3: crawl_articles never raises to its caller.
C3_NeverRaises == pc # "raised"

\* C4: a page fetched and parsed without error gives 'success' when the
\* extracted content is non-empty and 'failed' with empty content otherwise;
\* a reachable page with a selector element of more than 200 characters gives
\* 'success' with that text as content.
C4_ReachablePageStatus ==
    \A a \in Appended :
        (Readable(a) /\ Web(a.link).status = "ok")
        => LET m == _extract_main_content(content_selectors, Web(a.link).page, a.link) IN
           /\ a.crawl_status = (IF a.content # EmptyText THEN "success" ELSE "failed")
           /\ m.from = "selector" => (a.crawl_status = "success" /\ a.content = m.content)

\* C5: in the main pipeline every article that has its crawl status had the
\* page at the URL the collector recorded requested before.
C5_MainArticlesAreFetched ==
    viaMain =>
        \A a \in Appended :
            Has(a, "crawl_status") =>
                \E k \in 1..Len(log) : log[k].e = "get" /\ log[k].url = a.url

\* C6: every record of the result has a string as content (never None), a
\* content_length equal to len(content) and at most 5 images.
C6_RecordShape ==
    \A a \in Appended :
        /\ a.content # None
        /\ a.content_length = TLen(a.content)
        /\ Len(a.images) <= MaxImages

\* a returned record of the except path that carries its summary as content
C6_Witness ==
    /\ pc = "returned"
    /\ \E a \in Appended : a.crawl_status = "error" /\ a.content = ShortText
                           /\ a.content_length = ShortLen

\* C7: at the end of every call the counters are those of that call:
\* successful_crawls + failed_crawls = total_attempts = number of stubs.
C7_StatsPerRun ==
    pc = "returned" =>
        /\ stats.total_attempts = Len(articles)
        /\ stats.successful_crawls + stats.failed_crawls = stats.total_attempts

\* the settings the help text of main.py names as needed
NotionAndTelegram == {"NOTION_API_KEY", "NOTION_DATABASE_ID", "TELEGRAM_BOT_TOKEN",
                      "TELEGRAM_CHAT_ID"}

\* C13: a run of main() that has the four Notion and Telegram settings
\* passes the validation of step 1 and goes on to the collection of step 2,
\* with or without OPENAI_API_KEY.
C13_RunsWithoutOpenAIKey ==
    (viaMain /\ NotionAndTelegram \subseteq main_run.env) => main_run.reached # "validate"

Sleeps == {k \in 1..Len(log) : log[k].e = "sleep"}

\* C16: while crawl_articles runs and when it has returned, every stub
\* finished so far, whatever its outcome, was followed by one sleep of
\* REQUEST_DELAY, and no two requests follow each other without a sleep
\* between them.
C16_DelayAfterEveryStub ==
    pc \in {"loop", "returned"} =>
        /\ Cardinality(Sleeps) = idx
        /\ \A k \in 1..(Len(log) - 1) : ~(log[k].e = "get" /\ log[k + 1].e = "get")

CrawlStatuses == {"success", "failed", "error"}

\* the fields of a record that are final once the record is appended
SameOutcome(new, old) ==
    /\ Has(new, "crawl_status")
    /\ new.crawl_status = old.crawl_status
    /\ new.content = old.content
    /\ new.content_length = old.content_length
    /\ new.images = old.images

\* C17: within one call, a record appended by crawl_articles stays in its
\* place with one of the three statuses, and no later step, of the loop or of
\* create_simple_summary, changes its crawl_status, content, content_length
\* or images.
C17_RecordsAreFinal ==
    [][calls' = calls =>
          \A k \in 1..Len(crawled_articles) :
              /\ articles[crawled_articles[k]].crawl_status \in CrawlStatuses
              /\ k <= Len(crawled_articles')
              /\ crawled_articles'[k] = crawled_articles[k]
              /\ SameOutcome(articles'[crawled_articles[k]], articles[crawled_articles[k]])]_vars

\* a run of main() whose two records, crawled with status error, have been
\* summarised: the summary holds the previews, the records their content
C17_Witness ==
    /\ main_run.reached = "summarize"
    /\ Len(crawled_articles) = 2
    /\ \A k \in 1..2 : articles[k].crawl_status = "error"
    /\ articles[1].content = ShortText
    /\ \E i \in 1..2 : summary_data.articles[i].content = Concat(ShortText, Ellipsis)

----
(* Properties of main() *)

StageOrder == <<"validate", "collect", "crawl", "summarize", "report", "notion", "telegram">>

\* C27: the stages a run of main() has entered are an initial part of the
\* fixed order; a run that returned False sent exactly one error notification
\* and no success message, and enters no further stage; a run that has not
\* failed sent no error notification; the success message is sent once, after
\* the Notion save returned a URL, and the run then returns True whatever the
\* Telegram send returned.
C27_StagesInOrder ==
    [][viaMain' =>
          /\ Len(main_run'.stages) <= Len(StageOrder)
          /\ \A k \in 1..Len(main_run'.stages) : main_run'.stages[k] = StageOrder[k]
          /\ main_run'.ret = "False" => main_run'.errors = 1 /\ main_run'.sent = 0
          /\ main_run'.ret # "False" => main_run'.errors = 0
          /\ (main_run.ret = "False" /\ calls' = calls) => main_run' = main_run
          /\ main_run'.sent > 0 =>
                 /\ main_run'.sent = 1
                 /\ main_run'.notion_url = NotionPage
                 /\ main_run'.stages = StageOrder
          /\ main_run'.ret = "True" <=> main_run'.reached = "telegram"
          /\ (main_run'.reached = "notion" /\ main_run'.notion_url # NotionPage) =>
                 main_run'.ret = "False"]_vars

\* a run that saved the Notion page, failed to send the Telegram message and
\* returned True
C27_Witness ==
    /\ viaMain
    /\ main_run.stages = StageOrder
    /\ main_run.notion_url = NotionPage
    /\ main_run.telegram_success = "False"
    /\ main_run.ret = "True"

----
(* The extractor applied to pages: the state machine *)

\* ArticleCrawler.add_custom_selector: a dict assignment, so a known key
\* keeps its place and a new key goes last
SetSelector(table, domain, selectors) ==
    IF \E k \in 1..Len(table) : table[k].domain = domain
    THEN [k \in 1..Len(table) |->
             IF table[k].domain = domain
             THEN [domain |-> domain, selectors |-> selectors] ELSE table[k]]
    ELSE Append(table, [domain |-> domain, selectors |-> selectors])

\* selectors are registered while the crawler is set up, before the
\* extraction under observation
add_custom_selector(c) ==
    /\ first = NoResult
    /\ Len(content_selectors) < Len(InitContentSelectors) + MaxCustom
    /\ content_selectors' = SetSelector(content_selectors, c.domain, c.selectors)
    /\ UNCHANGED <<stats, crawlVars, extractVars, summaryVars,
                   serviceVars>>

Outcome(r, table) ==
    [content |-> r.content, images |-> r.images, from |-> r.from, sel |-> r.sel,
     fallback |-> r.fallback, table |-> table]

\* the effects of an extraction that returned r
Keep(r) ==
    /\ stats' = [stats EXCEPT !.fallback_used = @ + r.fallback]
    /\ soup' = r.soup
    /\ result' = Outcome(r, content_selectors)

\* an extraction made before the observed one; only its effects on the crawler stay
Earlier(page, u) ==
    /\ first = NoResult
    /\ extracts + 2 < MaxExtracts
    /\ Keep(ExtractPage(content_selectors, page, u))
    /\ markup' = page
    /\ source_url' = u
    /\ extracts' = extracts + 1
    /\ UNCHANGED <<content_selectors, crawlVars, first, summaryVars,
                   serviceVars>>

\* the first extraction of (page, u)
Extract(page, u) ==
    /\ first = NoResult
    /\ extracts < MaxExtracts
    /\ Keep(ExtractPage(content_selectors, page, u))
    /\ first' = result'
    /\ markup' = page
    /\ source_url' = u
    /\ extracts' = extracts + 1
    /\ UNCHANGED <<content_selectors, crawlVars, summaryVars,
                   serviceVars>>

\* the same markup and URL extracted again
ExtractAgain ==
    /\ first # NoResult
    /\ extracts < MaxExtracts
    /\ Keep(ExtractPage(content_selectors, markup, source_url))
    /\ extracts' = extracts + 1
    /\ UNCHANGED <<content_selectors, crawlVars, markup, source_url, first, summaryVars,
                   serviceVars>>

NextExtract ==
    \/ \E c \in CustomChoices : add_custom_selector(c)
    \/ \E page \in WarmPages, u \in Urls : Earlier(page, u)
    \/ \E page \in Pages, u \in Urls : Extract(page, u)
    \/ ExtractAgain

SpecExtract == Init /\ [][NextExtract]_vars

----
(* Properties of the extractor *)

Extracted == first # NoResult

\* the text of all paragraph elements of a page, stripped, joined with
\* single spaces and normalised
ParagraphText(page) == _clean_text(JoinSp(StripAll(Texts(Paragraphs(page)))))

\* C8: when no selector gives more than 200 cleaned characters, a page with
\* at least one paragraph element gives the normalised space-joined text of
\* all its paragraph elements, and a page without paragraph element gives the
\* normalised first 1000 characters of its body text, at most 1000 long.
C8_FallbackOrder ==
    (Extracted /\ result.from # "selector") =>
        IF Paragraphs(markup) # <<>>
        THEN /\ result.from = "paragraphs"
             /\ result.content = ParagraphText(markup)
        ELSE /\ result.from # "paragraphs"
             /\ result.content = (IF markup.body
                                  THEN _clean_text(Take(BodyText(markup), BodyCut))
                                  ELSE EmptyText)
             /\ TLen(result.content) <= BodyCut

CleanedAt(page, at) ==
    IF at.j = 0 THEN _clean_content(page.nodes[at.k]).text
    ELSE CleanInner(page.nodes[at.k], at.j).text

\* the cleaned texts of the elements of the page that the selector matches
MatchTexts(page, selector) ==
    {CleanedAt(page, Place(k, 0)) :
        k \in {i \in 1..Len(page.nodes) :
                  page.nodes[i].kind = "box" /\ page.nodes[i].sel = selector}}
    \cup UNION {{CleanedAt(page, Place(k, j)) : j \in InnerMatches(page.nodes[k], selector)} :
                   k \in {i \in 1..Len(page.nodes) : page.nodes[i].kind = "box"}}

\* C10: an extraction raises fallback_used by exactly one when its content
\* comes from paragraph aggregation and leaves it unchanged otherwise; content
\* that comes from a selector is the normalised text, longer than 200
\* characters, of an element of the page that the selector matches.
C10_FallbackCounted ==
    [][extracts' = extracts + 1 =>
          /\ stats'.fallback_used =
                 stats.fallback_used + (IF result'.from = "paragraphs" THEN 1 ELSE 0)
          /\ result'.from = "selector" =>
                 /\ stats'.fallback_used = stats.fallback_used
                 /\ result'.content \in MatchTexts(markup', result'.sel)
                 /\ TLen(result'.content) > MinContentLength]_vars

\* the page with a div.article-content of 300 clean characters, extracted
\* after a paragraph page had raised the counter: that text, counter unchanged
C10_Witness ==
    /\ Extracted
    /\ markup = ArticlePage
    /\ result.from = "selector"
    /\ result.sel = ".article-content"
    /\ result.content = LongText
    /\ stats.fallback_used = 1


\* the cleaned text of the first element of the page, as parsed, that the
\* selector matches
CleanedMatch(page, selector) == CleanedAt(page, select_one(page, selector))

\* the selector matches an element of the page whose cleaned text is longer
\* than 200 characters
Qualifies(page, selector) ==
    /\ select_one(page, selector) # NoPlace
    /\ TLen(CleanedMatch(page, selector)) > MinContentLength

\* C14: the content is the cleaned text of the first selector of the list
\* whose first matching element has more than 200 cleaned characters, the
\* selectors before it matching nothing or 200 characters or fewer and the
\* selectors after it playing no part; when no selector of the list
\* qualifies the content comes from no selector.
C14_FirstQualifyingSelectorWins ==
    Extracted =>
        LET list == SelectorsFor(result.table, source_url) IN
        IF \E i \in 1..Len(list) : Qualifies(markup, list[i])
        THEN \E i \in 1..Len(list) :
                 /\ Qualifies(markup, list[i])
                 /\ \A j \in 1..(i - 1) : ~Qualifies(markup, list[j])
                 /\ result.from = "selector"
                 /\ result.sel = list[i]
                 /\ result.content = CleanedMatch(markup, list[i])
        ELSE result.from # "selector"

\* C15: an extraction leaves the parsed page as it was parsed, and the
\* images it returns are the images of that page, whichever selectors were
\* tried.
C15_PageLeftAsParsed ==
    Extracted =>
        /\ soup = markup
        /\ result.images = _extract_images(markup, source_url)

\* the name of the site without its subdomain labels
RegistrableDomain(netloc) ==
    SelectSeq(Lower(netloc), LAMBDA tok : tok # "www.")

\* C18: the selector list used for a URL is the list the table holds for the
\* registrable domain of the URL, built in or added with add_custom_selector,
\* and the generic list exactly when the table has no entry for that domain.
C18_SelectorsOfTheDomain ==
    Extracted =>
        LET domain == RegistrableDomain(source_url.netloc)
            table == result.table
        IN IF \E k \in 1..Len(table) : table[k].domain = domain
           THEN \E k \in 1..Len(table) :
                    /\ table[k].domain = domain
                    /\ SelectorsFor(table, source_url) = table[k].selectors
                    /\ SelectorsFor(table, source_url) # GenericSelectors
           ELSE SelectorsFor(table, source_url) = GenericSelectors

\* the absolute URLs of the images of the page that carry a source, in
\* document order
ResolvedImages(page, base) ==
    LET imgs == SelectSeq(Flatten(page.nodes),
                          LAMBDA l : l.kind = "img" /\ (l.src.name # "" \/ l.dsrc.name # ""))
    IN [k \in 1..Len(imgs) |->
           [url |-> urljoin(base, IF imgs[k].src.name # "" THEN imgs[k].src ELSE imgs[k].dsrc)]]

\* C19: the images returned are, in document order and up to the limit of
\* five, the images of the page whose absolute URL has an allowed extension
\* or holds no exclusion keyword, and no icon, logo or tracking pixel is
\* among them.
C19_ImagesFiltered ==
    Extracted =>
        LET kept == SelectSeq(ResolvedImages(markup, source_url),
                              LAMBDA i : i.url.ext \/ ~i.url.excl)
        IN /\ result.images = SubSeq(kept, 1, Min(MaxImages, Len(kept)))
           /\ \A k \in 1..Len(result.images) : ~result.images[k].url.excl

\* no zero-width space or BOM, no whitespace at either end, whitespace only
\* as single spaces
IsNormalised(t) ==
    \A k \in 1..Len(t) :
        /\ t[k].c \notin {"zw", "bom"}
        /\ t[k].c \in Whitespace =>
               /\ t[k].n = 1
               /\ k # 1
               /\ k # Len(t)
               /\ t[k + 1].c \notin Whitespace

\* C20: the text _clean_text returns holds no run of two or more whitespace
\* characters, no whitespace at its ends and no zero-width space or BOM.
C20_CleanTextIsNormalised ==
    Extracted => IsNormalised(result.content)

----
(* The summariser: the state machine *)

MaxSummarized == 2
MaxSummaries == 2
MaxBatches == 4

T_startup == <<Run("b", 3), Run("sp", 1), Run("seutateueop", 1)>>

\* the articles handed to generate_summary
SumArticleChoices == {
    [title |-> T_startup, url |-> U_article, summary |-> ShortText, source |-> "Unknown",
     published |-> Dt(5, 30)],
    [title |-> T_ai, url |-> U_blank, summary |-> <<Run("ChatGPT", 1)>>, source |-> "Unknown"],
    [title |-> T_plain, url |-> U_gone, summary |-> LongText, source |-> "Unknown",
     published |-> Dt(7, 0)] }

\* what the chat completion answers
ReplyChoices == {NoReply, LongText,
                 <<Run("sp", 1), Run("LLM", 1), Run("sp", 1), Run("a", 6), Run("nl", 1)>>,
                 <<Run("OpenAI", 1), Run("sp", 1), Run("deep learning", 1), Run("sp", 1),
                   Run("ChatGPT", 1), Run("sp", 1), Run("LLM", 1)>>}

\* the keyword lists of single articles: runs of the vocabulary, in its order
KeywordBatches == {
    SubSeq(AI_KEYWORDS, 1, 5),
    SubSeq(AI_KEYWORDS, 6, 10),
    SubSeq(AI_KEYWORDS, 11, 15),
    <<"AI", "GPT">>,
    <<"GPT">> }

RECURSIVE Extend(_)
Extend(batches) == IF batches = <<>> THEN <<>> ELSE Head(batches) \o Extend(Tail(batches))

\* generate_summary(list): lines 21-29
CallSummary(list) ==
    /\ sum_pc \in {"idle", "returned", "direct"}
    /\ sum_calls < MaxSummaries
    /\ sum_calls' = sum_calls + 1
    /\ sum_articles' = list
    /\ summarized_articles' = <<>>
    /\ all_keywords' = <<>>
    /\ top_keywords' = <<>>
    /\ overall_summary' = EmptyText
    /\ last_summary' = EmptyText
    /\ last_keywords' = <<>>
    /\ sum_pc' = IF list = <<>> THEN "returned" ELSE "loop"
    /\ UNCHANGED <<stats, content_selectors, crawlVars, extractVars,
                   serviceVars>>

\* lines 54-55 and 69: the record appended, all_keywords extended
SummaryApply(o) ==
    /\ summarized_articles' = Append(summarized_articles, o.record)
    /\ all_keywords' = all_keywords \o o.keywords

\* lines 36 and 39: the locals summary and keywords of the pass
SummaryLocals(article, summary) ==
    /\ last_summary' = summary
    /\ last_keywords' = _extract_keywords(article, summary)

\* one pass of the loop of generate_summary: lines 31-69
SummaryStep(reply) ==
    /\ sum_pc = "loop"
    /\ Len(summarized_articles) < Len(sum_articles)
    /\ SummaryLocals(sum_articles[Len(summarized_articles) + 1],
                     _generate_ai_summary(sum_articles[Len(summarized_articles) + 1], reply))
    /\ SummaryApply(SummarizeOne(sum_articles[Len(summarized_articles) + 1], reply))
    /\ UNCHANGED <<stats, content_selectors, crawlVars, extractVars, sum_articles,
                   top_keywords, overall_summary, sum_pc, sum_calls,
                   serviceVars>>

\* the end of generate_summary: lines 71-86
SummaryReturn(reply) ==
    /\ sum_pc = "loop"
    /\ Len(summarized_articles) = Len(sum_articles)
    /\ top_keywords' = _get_top_keywords(all_keywords)
    /\ overall_summary' = _generate_overall_summary(summarized_articles, reply)
    /\ sum_pc' = "returned"
    /\ UNCHANGED <<stats, content_selectors, crawlVars, extractVars, sum_articles,
                   summarized_articles, all_keywords, last_summary, last_keywords,
                   sum_calls,
                   serviceVars>>

\* _get_top_keywords(all_keywords) called on the keywords at hand
TopKeywords ==
    /\ sum_pc = "idle"
    /\ top_keywords' = _get_top_keywords(all_keywords)
    /\ sum_pc' = "direct"
    /\ UNCHANGED <<stats, content_selectors, crawlVars, extractVars, sum_articles,
                   summarized_articles, all_keywords, overall_summary, last_summary,
                   last_keywords, sum_calls,
                   serviceVars>>

NextSummary ==
    \/ \E list \in SeqsUpTo(SumArticleChoices, MaxSummarized) : CallSummary(list)
    \/ \E reply \in ReplyChoices : SummaryStep(reply)
    \/ \E reply \in ReplyChoices : SummaryReturn(reply)
    \/ TopKeywords

\* the summariser with the keywords of up to MaxBatches articles at hand
InitSummary ==
    /\ InitPipeline
    /\ all_keywords \in {Extend(batches) : batches \in SeqsUpTo(KeywordBatches, MaxBatches)}
    /\ worksheet = FALSE
    /\ collection = NoCollection

SpecSummary == InitSummary /\ [][NextSummary]_vars

----
(* Properties of the summariser *)

Collected == {all_keywords[i] : i \in 1..Len(all_keywords)}

FirstPos(list, key) == CHOOSE i \in 1..Len(list) : list[i] = key /\ \A j \in 1..(i - 1) : list[j] # key

\* a ranks before b: more frequent, or as frequent and seen first
RanksBefore(a, b) ==
    \/ Count(all_keywords, a) > Count(all_keywords, b)
    \/ /\ Count(all_keywords, a) = Count(all_keywords, b)
       /\ FirstPos(all_keywords, a) < FirstPos(all_keywords, b)

\* C11: _get_top_keywords returns distinct collected keywords, every one
\* ranking before the next (more frequent, or as frequent and seen first) and
\* before every keyword left out, min(number of distinct keywords, 10) of them;
\* with no keyword collected it returns the five default keywords.
C11_TopKeywords ==
    (sum_pc = "direct" \/ (sum_pc = "returned" /\ sum_articles # <<>>)) =>
        IF all_keywords = <<>>
        THEN top_keywords = DefaultTopKeywords
        ELSE /\ Len(top_keywords) = Min(Cardinality(Collected), TopLimit)
             /\ \A i \in 1..Len(top_keywords) : top_keywords[i] \in Collected
             /\ \A i \in 1..Len(top_keywords) : \A j \in (i + 1)..Len(top_keywords) :
                    RanksBefore(top_keywords[i], top_keywords[j])
             /\ \A i \in 1..Len(top_keywords) :
                    \A key \in Collected \ {top_keywords[j] : j \in 1..Len(top_keywords)} :
                        RanksBefore(top_keywords[i], key)

\* more than ten distinct keywords, AI and GPT collected twice with AI seen
\* first: they lead the ten returned, in that order
C11_Witness ==
    /\ sum_pc = "direct"
    /\ Cardinality(Collected) > TopLimit
    /\ Len(top_keywords) = TopLimit
    /\ Count(all_keywords, "AI") = 2
    /\ Count(all_keywords, "GPT") = 2
    /\ top_keywords[1] = "AI"
    /\ top_keywords[2] = "GPT"

\* the category table of the scenario of the specification
ScenarioCategories == <<
    [category |-> "AI nyuseu", keywords |-> <<"AI", "ingongjineung">>],
    [category |-> "gisul", keywords |-> <<"seutateueop">>] >>

CategoryHit(entry, text) ==
    \E k \in 1..Len(entry.keywords) : Contains(text, LowerSym(entry.keywords[k]))

\* C12: every article of generate_summary carries the first category of the
\* table one of whose keywords occurs, case-insensitively, in its title plus
\* summary, and the default label when no category matches; with the table
\* {AI nyuseu: [AI, ingongjineung], gisul: [seutateueop]} a text that holds
\* only seutateueop gets gisul.
C12_FirstMatchingCategory ==
    \A k \in 1..Len(summarized_articles) :
        LET text == TitleAndSummary(summarized_articles[k].title,
                                    summarized_articles[k].summary)
            category == summarized_articles[k].category
        IN IF \E c \in 1..Len(ScenarioCategories) : CategoryHit(ScenarioCategories[c], text)
           THEN \E c \in 1..Len(ScenarioCategories) :
                    /\ category = ScenarioCategories[c].category
                    /\ CategoryHit(ScenarioCategories[c], text)
                    /\ \A b \in 1..(c - 1) : ~CategoryHit(ScenarioCategories[b], text)
           ELSE category = DefaultCategory

\* the positions of the vocabulary terms that occur in the lower-cased text
Hits(text) == {i \in 1..Len(AI_KEYWORDS) : Contains(text, LowerSym(AI_KEYWORDS[i]))}

\* the j-th smallest element of a set of numbers
Nth(set, j) == CHOOSE i \in set : Cardinality({h \in set : h < i}) = j - 1

\* the article of the last pass of the loop
LastArticle == sum_articles[Len(summarized_articles)]

\* C21: the keywords _extract_keywords produces for an article are the
\* vocabulary terms occurring, case-insensitively, in its lower-cased title
\* plus summary, in vocabulary order, the first 5 of them at most; and no
\* article of the result of generate_summary carries more than 5 keywords.
C21_KeywordsOfTheArticle ==
    /\ (sum_pc \in {"loop", "returned"} /\ summarized_articles # <<>>) =>
           LET hits == Hits(TitleAndSummary(LastArticle.title, last_summary)) IN
           /\ Len(last_keywords) = Min(Cardinality(hits), KeywordCut)
           /\ \A j \in 1..Len(last_keywords) : last_keywords[j] = AI_KEYWORDS[Nth(hits, j)]
    /\ \A k \in 1..Len(summarized_articles) :
           Len(summarized_articles[k].keywords) <= KeywordCut

\* six vocabulary terms occur (AI in the title; OpenAI, deep learning,
\* ChatGPT, LLM and, inside ChatGPT, GPT in the summary): GPT is cut
C21_Witness ==
    /\ sum_pc = "loop"
    /\ summarized_articles # <<>>
    /\ Cardinality(Hits(TitleAndSummary(LastArticle.title, last_summary))) > KeywordCut
    /\ last_keywords = <<"AI", "deep learning", "ChatGPT", "OpenAI", "LLM">>

----
(* The keyword managers: the state machine *)

MaxClock == 305
MaxSheetCalls == 3

\* the seconds that may pass between two calls
Delays == {61, 240}

Unreachable == [status |-> "error", values |-> <<>>]
Sheet(values) == [status |-> "ok", values |-> values]

\* what worksheet.get_all_values() may give
SheetChoices == {
    Unreachable,
    Sheet(<<>>),
    Sheet(<< <<"word">>, <<"AI">> >>),
    Sheet(<< <<"keyword">>, <<"AI">>, <<"Y">> >>),
    Sheet(<< <<"keyword", "category", "priority", "active">>,
             <<"kakao", "TECH", "3", "FALSE">> >>),
    Sheet(<< <<"keyword", "category", "priority", "active">>,
             <<"beullokchein", "tech", "2", "y">>,
             <<" AI ", "AI", "1", "TRUE">>,
             <<"kakao", "TECH", "3", "FALSE">>,
             <<" ", "AI", "1", "TRUE">>,
             <<"AI", "ai", "2", "TRUE">>,
             <<"LLM">> >>) }

\* the arguments of get_search_keywords
SearchChoices == {
    [source |-> "auto", category |-> NoCategory, max_count |-> 0],
    [source |-> "auto", category |-> "ai", max_count |-> 0],
    [source |-> "sheets", category |-> NoCategory, max_count |-> 3],
    [source |-> "default", category |-> "TECH", max_count |-> 0] }

Manager == [cached_keywords |-> cached_keywords, last_update |-> last_update,
            worksheet |-> worksheet]

\* what a call of get_keywords leaves in the manager, g being what it did
SheetApply(g) ==
    /\ cached_keywords' = g.cached_keywords
    /\ last_update' = g.last_update
    /\ worksheet' = g.worksheet
    /\ returned' = g.keywords
    /\ last_load' = IF g.loaded THEN [set |-> TRUE, t |-> clock, ok |-> g.ok] ELSE last_load
    /\ last_loaded' = IF g.loaded /\ g.ok THEN g.keywords ELSE last_loaded
    /\ sheet_calls' = sheet_calls + 1

\* time passes
Advance(d) ==
    /\ clock + d <= MaxClock
    /\ clock' = clock + d
    /\ UNCHANGED <<pipelineVars, worksheet, cached_keywords, last_update, sheet_op, returned,
                   kw_result, last_load, last_loaded, sheet_calls, schedVars, collection>>

GetKeywordsApply(use_cache, g) ==
    /\ SheetApply(g)
    /\ sheet_op' = [name |-> "get_keywords", use_cache |-> use_cache, loaded |-> g.loaded,
                    ok |-> g.ok]

\* GoogleSheetsManager.get_keywords(use_cache)
GetKeywords(use_cache, sheet, connects) ==
    /\ sheet_calls < MaxSheetCalls
    /\ GetKeywordsApply(use_cache, get_keywords(use_cache, Manager, clock, sheet, connects))
    /\ UNCHANGED <<pipelineVars, clock, kw_result, schedVars, collection>>

RefreshCacheApply(g) ==
    /\ SheetApply(g)
    /\ sheet_op' = [name |-> "refresh_cache", use_cache |-> FALSE, loaded |-> g.loaded,
                    ok |-> g.ok]

\* GoogleSheetsManager.refresh_cache()
RefreshCache(sheet, connects) ==
    /\ sheet_calls < MaxSheetCalls
    /\ RefreshCacheApply(refresh_cache(Manager, clock, sheet, connects))
    /\ UNCHANGED <<pipelineVars, clock, kw_result, schedVars, collection>>

SearchApply(a, g) ==
    /\ SheetApply(g)
    /\ kw_result' = get_search_keywords(a.source, a.category, a.max_count, g)
    /\ sheet_op' = [name |-> "get_search_keywords", use_cache |-> TRUE, loaded |-> g.loaded,
                    ok |-> g.ok, source |-> a.source, category |-> a.category,
                    max_count |-> a.max_count]

\* KeywordManager.get_search_keywords(source, category, max_count) with
\* source "auto" or "sheets": the sheets manager is asked
SearchSheets(a, sheet, connects) ==
    /\ sheet_calls < MaxSheetCalls
    /\ a.source # "default"
    /\ SearchApply(a, get_keywords(TRUE, Manager, clock, sheet, connects))
    /\ UNCHANGED <<pipelineVars, clock, schedVars, collection>>

\* KeywordManager.get_search_keywords("default", category, max_count)
SearchDefault(a) ==
    /\ sheet_calls < MaxSheetCalls
    /\ a.source = "default"
    /\ kw_result' = get_search_keywords(a.source, a.category, a.max_count, [keywords |-> <<>>])
    /\ sheet_op' = [name |-> "get_search_keywords", use_cache |-> TRUE, loaded |-> FALSE,
                    ok |-> FALSE, source |-> a.source, category |-> a.category,
                    max_count |-> a.max_count]
    /\ sheet_calls' = sheet_calls + 1
    /\ UNCHANGED <<pipelineVars, clock, worksheet, cached_keywords, last_update, returned,
                   last_load, last_loaded, schedVars, collection>>

\* whether _initialize_client succeeds: asked only of a manager without worksheet
Connects == IF worksheet THEN {TRUE} ELSE BOOLEAN

NextKeywords ==
    \/ \E d \in Delays : Advance(d)
    \/ \E use_cache \in BOOLEAN, sheet \in SheetChoices, connects \in Connects :
           GetKeywords(use_cache, sheet, connects)
    \/ \E sheet \in SheetChoices, connects \in Connects : RefreshCache(sheet, connects)
    \/ \E a \in SearchChoices, sheet \in SheetChoices, connects \in Connects :
           SearchSheets(a, sheet, connects)
    \/ \E a \in SearchChoices : SearchDefault(a)

\* the managers as constructed, the worksheet connected or not
InitKeywords ==
    /\ InitPipeline
    /\ all_keywords = <<>>
    /\ worksheet \in BOOLEAN
    /\ collection = NoCollection

SpecKeywords == InitKeywords /\ [][NextKeywords]_vars

----
(* Properties of the keyword managers *)

Elems(q) == {q[k] : k \in 1..Len(q)}

\* C22: get_search_keywords in auto mode returns the keywords of the sheet
\* when the sheet loads and the default AI and tech keywords of the
\* KeywordManager when the load fails; it never returns an empty list.
C22_SheetOrDefaultKeywords ==
    (sheet_op.name = "get_search_keywords" /\ sheet_op.source = "auto"
        /\ sheet_op.category = NoCategory) =>
        /\ kw_result # <<>>
        /\ (sheet_op.loaded /\ sheet_op.ok) =>
               Elems(kw_result) = {returned[k].keyword : k \in 1..Len(returned)}
        /\ (sheet_op.loaded /\ ~sheet_op.ok) =>
               Elems(kw_result) = Elems(default_ai_keywords) \cup Elems(default_tech_keywords)

\* C28: a call of get_keywords that may use the cache does not load the
\* sheet within 60 seconds of a failed load, whichever failed load it was,
\* and serves the fallback keywords; within 300 seconds of a successful load
\* it does not load either and serves the keywords of that load.
C28_NoReloadBeforeRetry ==
    [][(sheet_calls' # sheet_calls /\ sheet_op'.name = "get_keywords"
            /\ sheet_op'.use_cache /\ last_load.set) =>
          /\ (~last_load.ok /\ clock - last_load.t <= RetryDelay) =>
                 (~sheet_op'.loaded /\ returned' = fallback_keywords)
          /\ (last_load.ok /\ clock - last_load.t <= cache_duration) =>
                 (~sheet_op'.loaded /\ returned' = last_loaded)]_vars

\* C29: whatever calls and loads came before, get_keywords returns a
\* non-empty list of active records, the records of the latest successful
\* load or the built-in fallback records.
C29_ActiveRecordsReturned ==
    sheet_op.name \in {"get_keywords", "refresh_cache"} =>
        /\ returned # <<>>
        /\ \A k \in 1..Len(returned) : returned[k].active
        /\ \/ returned = fallback_keywords
           \/ last_loaded # <<>> /\ returned = last_loaded

\* a load succeeded, later a load failed and gave the fallback records while
\* the cache still holds the loaded ones
C29_Witness ==
    /\ sheet_op.name = "get_keywords"
    /\ sheet_op.loaded
    /\ ~sheet_op.ok
    /\ last_loaded # <<>>
    /\ cached_keywords = last_loaded
    /\ returned = fallback_keywords

----
(* Properties of create_simple_summary *)

\* the records handed to create_simple_summary
Summarized == [k \in 1..Len(crawled_articles) |-> articles[crawled_articles[k]]]

RECURSIVE SumContent(_)
SumContent(list) ==
    IF list = <<>> THEN 0 ELSE TLen(Head(list).content) + SumContent(Tail(list))

\* C23: create_simple_summary reports the number of articles, the number of
\* distinct sources, and as average content length the floor of the sum of
\* the full content lengths over the number of articles, 0 for no article.
C23_SummaryTotals ==
    summary_data # NoSummary =>
        /\ summary_data.total_articles = Len(Summarized)
        /\ summary_data.total_sources =
               Cardinality({Summarized[k].source : k \in 1..Len(Summarized)})
        /\ IF Summarized = <<>> THEN summary_data.avg_content_length = 0
           ELSE /\ summary_data.avg_content_length * Len(Summarized) <= SumContent(Summarized)
                /\ SumContent(Summarized) <
                       (summary_data.avg_content_length + 1) * Len(Summarized)

\* two articles of two sources whose content lengths do not divide evenly
C23_Witness ==
    /\ summary_data # NoSummary
    /\ summary_data.total_articles = 2
    /\ summary_data.total_sources = 2
    /\ summary_data.avg_content_length * 2 < SumContent(Summarized)

----
(* ImprovedScheduler.run_news_automation (scheduler.py): the state machine. *)
(* A step is one statement on the scheduler's fields, or the wait for the  *)
(* subprocess, or the two assignments of the success branch; the           *)
(* invocations run on one scheduler object and their steps interleave.     *)
(* The keyword preview of lines 120-132 catches its own exceptions and     *)
(* changes nothing of the scheduler.                                       *)

SubprocessTimeout == 300

\* what subprocess.run of the main script gives: the exit code 0, another
\* exit code, TimeoutExpired after SubprocessTimeout seconds, another exception
Outcomes == {"zero", "nonzero", "timeout", "exception"}

At_(i, at) == invocation[i].pc = at
Goto(i, at) == [invocation EXCEPT ![i].pc = at]

\* lines 107-109: the test of is_running
Invoke(i) ==
    /\ At_(i, "idle")
    /\ invocation' = IF is_running
                     THEN [invocation EXCEPT ![i].pc = "done", ![i].ret = "False"]
                     ELSE [invocation EXCEPT ![i].pc = "set", ![i].started = TRUE]
    /\ UNCHANGED <<pipelineVars, sheetVars, collection, is_running, execution_count, success_count,
                   last_execution, ended>>

\* line 112: self.is_running = True
SetRunning(i) ==
    /\ At_(i, "set")
    /\ is_running' = TRUE
    /\ invocation' = Goto(i, "count")
    /\ UNCHANGED <<pipelineVars, sheetVars, collection, execution_count, success_count, last_execution,
                   ended>>

\* line 113: self.execution_count += 1
CountExecution(i) ==
    /\ At_(i, "count")
    /\ execution_count' = execution_count + 1
    /\ invocation' = Goto(i, "launch")
    /\ UNCHANGED <<pipelineVars, sheetVars, collection, is_running, success_count, last_execution, ended>>

\* lines 114-145: subprocess.run starts the main script, or an exception is
\* raised before the script runs
Launch(i, raises) ==
    /\ At_(i, "launch")
    /\ invocation' = IF raises
                     THEN [invocation EXCEPT ![i].pc = "except", ![i].outcome = "exception"]
                     ELSE Goto(i, "running")
    /\ UNCHANGED <<pipelineVars, sheetVars, collection, is_running, execution_count, success_count,
                   last_execution, ended>>

\* the subprocess ends and a timeout is not reported
Finish_TimeoutSilent(i, outcome) ==
    /\ At_(i, "running")
    /\ outcome # "exception"
    /\ ended' = ended + 1
    /\ invocation' = [invocation EXCEPT
           ![i].outcome = outcome,
           ![i].pc = CASE outcome = "zero" -> "succeed"
                       [] outcome = "nonzero" -> "notify"
                       [] outcome = "timeout" -> "return"]
    /\ UNCHANGED <<pipelineVars, sheetVars, collection, is_running, execution_count, success_count,
                   last_execution>>

\* lines 138-151: the subprocess ends with an exit code or subprocess.run
\* raises TimeoutExpired; end_time is taken
Finish(i, outcome) ==
    /\ At_(i, "running")
    /\ outcome # "exception"
    /\ ended' = ended + 1
    /\ invocation' = [invocation EXCEPT
           ![i].outcome = outcome,
           ![i].pc = CASE outcome = "zero" -> "succeed"
                       [] outcome = "nonzero" -> "notify"
                       [] outcome = "timeout" -> "except"]
    /\ UNCHANGED <<pipelineVars, sheetVars, collection, is_running, execution_count, success_count,
                   last_execution>>

\* lines 152-154 and 167: success_count += 1, last_execution = end_time, return True
Succeed(i) ==
    /\ At_(i, "succeed")
    /\ success_count' = success_count + 1
    /\ last_execution' = ended
    /\ invocation' = [invocation EXCEPT ![i].pc = "finally", ![i].ret = "True"]
    /\ UNCHANGED <<pipelineVars, sheetVars, collection, is_running, execution_count, ended>>

\* _send_failure_notification: the notification subprocess is run once;
\* delivered or not, nothing is raised to the caller (lines 198-218)
_send_failure_notification(i, delivered) ==
    [invocation EXCEPT ![i].notified = @ + 1, ![i].pc = "return"]

\* lines 181, 187 and 192: the failure notification of the three failure paths
Notify(i, delivered) ==
    /\ invocation[i].pc \in {"notify", "except"}
    /\ invocation' = _send_failure_notification(i, delivered)
    /\ UNCHANGED <<pipelineVars, sheetVars, collection, is_running, execution_count, success_count,
                   last_execution, ended>>

\* lines 183, 188 and 193: return False
ReturnFalse(i) ==
    /\ At_(i, "return")
    /\ invocation' = [invocation EXCEPT ![i].pc = "finally", ![i].ret = "False"]
    /\ UNCHANGED <<pipelineVars, sheetVars, collection, is_running, execution_count, success_count,
                   last_execution, ended>>

\* the invocation returns leaving is_running as it is
Finally_KeepsRunning(i) ==
    /\ At_(i, "finally")
    /\ invocation' = Goto(i, "done")
    /\ UNCHANGED <<pipelineVars, sheetVars, collection, is_running, execution_count, success_count,
                   last_execution, ended>>

\* lines 195-196: finally: self.is_running = False
Finally(i) ==
    /\ At_(i, "finally")
    /\ is_running' = FALSE
    /\ invocation' = Goto(i, "done")
    /\ UNCHANGED <<pipelineVars, sheetVars, collection, execution_count, success_count, last_execution,
                   ended>>

NextScheduler ==
    \/ \E i \in 1..MaxInvocations : Invoke(i)
    \/ \E i \in 1..MaxInvocations : SetRunning(i)
    \/ \E i \in 1..MaxInvocations : CountExecution(i)
    \/ \E i \in 1..MaxInvocations, raises \in BOOLEAN : Launch(i, raises)
    \/ \E i \in 1..MaxInvocations, outcome \in Outcomes : Finish(i, outcome)
    \/ \E i \in 1..MaxInvocations : Succeed(i)
    \/ \E i \in 1..MaxInvocations, delivered \in BOOLEAN : Notify(i, delivered)
    \/ \E i \in 1..MaxInvocations : ReturnFalse(i)
    \/ \E i \in 1..MaxInvocations : Finally(i)

SpecScheduler == Init /\ [][NextScheduler]_vars

----
(* Properties of the scheduler *)

\* the invocations whose main-script subprocess exists
Running == {i \in 1..MaxInvocations : invocation[i].pc = "running"}

\* the invocations that have returned after passing the test of is_running
Completed == {i \in 1..MaxInvocations : invocation[i].pc = "done" /\ invocation[i].started}

\* C24: an invocation that finds is_running true returns False and changes
\* nothing of the scheduler, and at no time do two main-script subprocesses
\* exist, however the invocations interleave.
C24_OneSubprocess ==
    /\ Cardinality(Running) <= 1
    /\ \A i \in 1..MaxInvocations :
           (invocation[i].pc = "done" /\ ~invocation[i].started) =>
               invocation[i].ret = "False" /\ invocation[i].outcome = "none"

\* C25: when a started invocation returns, is_running is false; the success
\* count stays between 0 and the execution count; the execution count is the
\* number of started invocations that have counted themselves; the success
\* count and last_execution change only in an invocation whose subprocess
\* exited with code 0.
C25_CountersConsistent ==
    [][/\ \A i \in 1..MaxInvocations :
              (invocation[i].pc # "done" /\ invocation'[i].pc = "done"
                  /\ invocation[i].started) => ~is_running'
       /\ 0 <= success_count' /\ success_count' <= execution_count'
       /\ execution_count' =
              Cardinality({i \in 1..MaxInvocations :
                              invocation'[i].started
                                  /\ invocation'[i].pc \notin {"set", "count"}})
       /\ (success_count' # success_count \/ last_execution' # last_execution) =>
              \E i \in 1..MaxInvocations :
                  /\ invocation[i].pc # invocation'[i].pc
                  /\ invocation[i].outcome = "zero"]_vars

\* an invocation has returned after exit code 0 and another after a timeout
C25_Witness ==
    /\ \E i \in Completed : invocation[i].outcome = "zero"
    /\ \E i \in Completed : invocation[i].outcome = "timeout"
    /\ ~is_running
    /\ success_count = 1
    /\ execution_count = 2

\* C26: a started invocation that has returned attempted exactly one failure
\* notification and returned False unless its subprocess exited with code 0;
\* after exit code 0 it attempted none and returned True.
C26_OneFailureNotification ==
    \A i \in Completed :
        IF invocation[i].outcome = "zero"
        THEN invocation[i].notified = 0 /\ invocation[i].ret = "True"
        ELSE invocation[i].notified = 1 /\ invocation[i].ret = "False"

\* the three ways a started invocation fails have all happened
C26_Witness ==
    /\ \E i \in Completed : invocation[i].outcome = "nonzero"
    /\ \E i \in Completed : invocation[i].outcome = "timeout"
    /\ \E i \in Completed : invocation[i].outcome = "exception"

----
(* GoogleNewsCollector.collect_latest_news on its own: the state machine *)

\* GoogleNewsCollector(max_articles) before it reads the feed
InitCollect ==
    /\ InitPipeline
    /\ all_keywords = <<>>
    /\ worksheet = FALSE
    /\ collection \in {[max_articles |-> n, feed |-> [ok |-> ok, entries |-> Clocked(entries, 1)],
                        articles |-> <<>>, pc |-> "new"] :
                          n \in 1..MaxFeed, ok \in BOOLEAN,
                          entries \in SeqsUpTo(EntryChoices, MaxFeed)}

\* collect_latest_news(keywords): lines 50-105
CollectLatestNews ==
    /\ collection.pc = "new"
    /\ collection' = [collection EXCEPT
           !.articles = collect_latest_news(collection.feed, collection.max_articles),
           !.pc = "returned"]
    /\ UNCHANGED <<pipelineVars, sheetVars, schedVars>>

NextCollect == CollectLatestNews

SpecCollect == InitCollect /\ [][NextCollect]_vars

----
(* Properties of collect_latest_news *)

\* the feed entries that give an article and pass is_ai_related
Passing(entries) ==
    {k \in 1..Len(entries) :
        /\ extract_article_info(entries[k]) # NoArticle
        /\ is_ai_related(extract_article_info(entries[k]))}

\* C30: collect_latest_news returns the articles of the first max_articles
\* feed entries that give an article passing is_ai_related, in feed order,
\* going past the entries that fail; a failed request or parse gives the
\* empty list.
C30_CollectedInFeedOrder ==
    collection.pc = "returned" =>
        LET entries == collection.feed.entries
            articles_ == collection.articles
            passing == Passing(entries)
        IN  /\ Len(articles_) <= collection.max_articles
            /\ \A j \in 1..Len(articles_) : is_ai_related(articles_[j])
            /\ ~collection.feed.ok => articles_ = <<>>
            /\ collection.feed.ok =>
                   /\ Len(articles_) = Min(collection.max_articles, Cardinality(passing))
                   /\ \A j \in 1..Len(articles_) :
                          articles_[j] = extract_article_info(entries[Nth(passing, j)])

\* the feed holds more passing entries than the collector takes, and the
\* collector went past an entry without a title to reach one it returned
C30_Witness ==
    /\ collection.pc = "returned"
    /\ collection.feed.ok
    /\ Len(collection.articles) = 1
    /\ collection.max_articles = 1
    /\ Cardinality(Passing(collection.feed.entries)) = 2
    /\ ~Has(collection.feed.entries[1], "title")

====
